---- MODULE Spec2Model ----
(***************************************************************************)
(* perf-runner: the coordinator's RunAllTests loop and the topology        *)
(* executor (ExecuteTest and its two-, three- and four-node variants),     *)
(* together with configuration validation.                                 *)
(*                                                                         *)
(* Pointers are sequences: <<>> is nil, <<r>> points to r.  Error values   *)
(* and error strings are sequences of their ": "-separated segments, so    *)
(* <<>> is the empty string / the nil error and wrapping an error (%w) is   *)
(* prepending a segment.                                                    *)
(*                                                                         *)
(* Spec follows one scenario, run once, through LoadConfig, ExecuteTest    *)
(* with its concurrent role tasks, and the append in RunAllTests.  SpecRun *)
(* follows the loop of RunAllTests over several scenarios and repeats,     *)
(* with RunTest as a single step.  SpecCalls applies MergeRunnerConfig,    *)
(* GetEffectiveArgs, GetEffectiveEnv, BuildCommand, Validate and           *)
(* ParseMetrics to bounded inputs.                                         *)
(* SpecPrepare follows the per-role configurations of one scenario from    *)
(* the merge to the commands sent, over a heap of Config structs and maps.  *)
(* SpecConnect follows ConnectHosts, with its per-host tasks, and Cleanup.  *)
(* SpecRepeat follows the repeat loop with the role tasks of every       *)
(* repeat, SpecParseFail one scenario whose runners fail to parse their    *)
(* output, and SpecRegistry concurrent calls of the runner registry.       *)
(* SpecPreflight runs two scenarios on a coordinator that may lack a       *)
(* runner or a connection, SpecFair one scenario with its role tasks       *)
(* scheduled fairly, and SpecRegister follows App.Run from LoadConfig      *)
(* through registerRunners to RunAllTests under every runner setting.      *)
(***************************************************************************)
EXTENDS Integers, Sequences, FiniteSets, TLC

\* ------------------------------------------------------------------ bounds
\* Largest repeat count a scenario of the model asks for.
MaxRepeat == 2
\* Largest number of scenarios in the configuration document of SpecRun.
MaxTests == 2
\* Largest inter-repeat delay (in abstract time units) of a scenario.
MaxDelay == 1
\* Largest number of Cleanup calls followed.
MaxCleanups == 2
\* lines of captured output handed to ParseMetrics
MaxLines == 3
\* Largest number of registry calls one task makes.
MaxOps == 1

\* ------------------------------------------------------- configuration data
\* Keys of TestConfig.Hosts.
Hosts == {"h1", "h2", "h3", "h4"}
\* Keys of Coordinator.sshClients after ConnectHosts returned nil.
sshClients == Hosts
\* TestConfig.Runner (single-runner configuration) and the registered runners.
Runner == "iperf3"
runners == {"iperf3"}

\* Host identifiers a scenario may name in each field ("" = field not set,
\* "h5" = a name that is not a key of Hosts).
ClientNames == {"", "h1"}
ServerNames == {"", "h1", "h2"}
IntermediateNames == {"", "h1", "h3"}
Intermediate1Names == {"", "h1", "h3", "h5"}
Intermediate2Names == {"", "h2", "h3", "h4"}

TestScenario ==
    [Client : ClientNames, Server : ServerNames,
     Intermediate : IntermediateNames,
     Intermediate1 : Intermediate1Names, Intermediate2 : Intermediate2Names,
     Repeat : (-1)..MaxRepeat, Delay : 0..MaxDelay]

Roles == {"server", "intermediate", "intermediate1", "intermediate2", "client"}

\* ------------------------------------------------------------ config.go
\* TestConfig.Runner and TestConfig.Runners (<<>> = nil) of a configuration
\* that names one runner for all roles.
SingleRunner == [Runner |-> Runner, Runners |-> <<>>]

\* The field of RoleRunners GetRunnerForRole reads for a role; any other
\* role falls through the switch.
roleRunner(rr, role) ==
    CASE role = "client" -> rr.Client
      [] role = "server" -> rr.Server
      [] role = "intermediate" -> rr.Intermediate
      [] OTHER -> ""

GetRunnerForRole(c, role) ==
    IF c.Runners # <<>> /\ roleRunner(c.Runners[1], role) # ""
    THEN roleRunner(c.Runners[1], role)
    ELSE c.Runner

HasIntermediateNode(t) == t.Intermediate # ""

HasFourNodeTopology(t) == t.Intermediate1 # "" /\ t.Intermediate2 # ""

GetTopologyType(t) ==
    IF HasFourNodeTopology(t) THEN "4-node"
    ELSE IF HasIntermediateNode(t) THEN "3-node"
    ELSE "2-node"

\* ---------------------------------------------------------- validator.go
\* The error validateTestScenario returns, <<>> for nil.
validateTestScenario(t) ==
    IF t.Client = "" THEN <<"client host is required">>
    ELSE IF t.Server = "" THEN <<"server host is required">>
    ELSE IF t.Client \notin Hosts THEN <<"client host not found in hosts configuration">>
    ELSE IF t.Server \notin Hosts THEN <<"server host not found in hosts configuration">>
    ELSE IF t.Intermediate # "" /\ t.Intermediate \notin Hosts
        THEN <<"intermediate host not found in hosts configuration">>
    ELSE IF t.Intermediate # "" /\ t.Intermediate = t.Client
        THEN <<"intermediate and client cannot be the same host">>
    ELSE IF t.Intermediate # "" /\ t.Intermediate = t.Server
        THEN <<"intermediate and server cannot be the same host">>
    ELSE IF t.Client = t.Server THEN <<"client and server cannot be the same host">>
    ELSE IF t.Repeat < 0 THEN <<"repeat count cannot be negative">>
    ELSE <<>>


\* ---------------------------------------------------------- ssh/client.go
\* What can happen to a command handed to Client.ExecuteCommand: the session
\* cannot be created, the remote process exits with status 0 or with a
\* non-zero status, the transport fails while the command runs, or the
\* command context is done first.
Outcomes == {"session", "exit0", "exitN", "transport", "timeout"}

\* The pair (result, err) ExecuteCommand returns for an outcome.
ExecuteCommand(o) ==
    CASE o = "session" ->
           [res |-> <<>>, err |-> <<"failed to create session">>]
      [] o = "exit0" ->
           [res |-> <<[ExitCode |-> 0, Error |-> <<>>]>>, err |-> <<>>]
      [] o = "exitN" ->
           [res |-> <<[ExitCode |-> 1, Error |-> <<"Process exited with status 1">>]>>,
            err |-> <<"Process exited with status 1">>]
      [] o = "transport" ->
           [res |-> <<[ExitCode |-> 0, Error |-> <<"connection lost">>]>>,
            err |-> <<"connection lost">>]
      [] o = "timeout" ->
           [res |-> <<>>, err |-> <<"command timed out", "context deadline exceeded">>]

\* ------------------------------------------------- coordinator/executor.go
\* Mutant of runRemoteCommand: a command that ended in an error still yields
\* a Result next to the error.
runRemoteCommand_ResultAndError(validateErr, ret, parseErr) ==
    IF validateErr # <<>>
    THEN [result |-> <<>>, err |-> <<"configuration validation failed">> \o validateErr]
    ELSE IF ret.err # <<>>
    THEN [result |-> IF ret.res = <<>> THEN <<>>
                     ELSE <<[Success |-> ret.res[1].ExitCode = 0,
                             ExitCode |-> ret.res[1].ExitCode,
                             Error |-> ret.res[1].Error]>>,
          err |-> <<"SSH command execution failed">> \o ret.err]
    ELSE [result |-> <<[Success |-> ret.res[1].ExitCode = 0,
                        ExitCode |-> ret.res[1].ExitCode,
                        Error |-> ret.res[1].Error]>>,
          err |-> <<>>]

\* Mutant of runRemoteCommand: an error of ParseMetrics is returned.
runRemoteCommand_ParseFatal(validateErr, ret, parseErr) ==
    IF validateErr # <<>>
    THEN [result |-> <<>>, err |-> <<"configuration validation failed">> \o validateErr]
    ELSE IF ret.err # <<>>
    THEN [result |-> <<>>, err |-> <<"SSH command execution failed">> \o ret.err]
    ELSE IF parseErr # <<>>
    THEN [result |-> <<>>, err |-> <<"failed to parse metrics">> \o parseErr]
    ELSE [result |-> <<[Success |-> ret.res[1].ExitCode = 0,
                        ExitCode |-> ret.res[1].ExitCode,
                        Error |-> ret.res[1].Error]>>,
          err |-> <<>>]

\* The pair (result, err) runRemoteCommand returns, given the error of
\* Runner.Validate, when that is nil what ExecuteCommand returned, and when
\* that has no error the error of Runner.ParseMetrics, which is only logged.
runRemoteCommand(validateErr, ret, parseErr) ==
    IF validateErr # <<>>
    THEN [result |-> <<>>, err |-> <<"configuration validation failed">> \o validateErr]
    ELSE IF ret.err # <<>>
    THEN [result |-> <<>>, err |-> <<"SSH command execution failed">> \o ret.err]
    ELSE [result |-> <<[Success |-> ret.res[1].ExitCode = 0,
                        ExitCode |-> ret.res[1].ExitCode,
                        Error |-> ret.res[1].Error]>>,
          err |-> <<>>]

NoOut == [result |-> <<>>, err |-> <<>>]
NoTask == [st |-> "none", out |-> NoOut]

\* &TestResult{ScenarioName: test.Name, StartTime: startTime}; a scenario is
\* named by its position in TestConfig.Tests.
NewTestResult(name) ==
    [ScenarioName |-> name, Success |-> FALSE, ClientResult |-> <<>>, ServerResult |-> <<>>,
     IntermediateResult |-> <<>>, Intermediate1Result |-> <<>>,
     Intermediate2Result |-> <<>>, Error |-> <<>>]

\* Mutant of Preflight: the connections of the intermediate hosts are not
\* looked up.
Preflight_IntermediatesUnchecked(c, t, registered, connected) ==
    IF GetRunnerForRole(c, "client") \notin registered THEN <<"client runner not found">>
    ELSE IF GetRunnerForRole(c, "server") \notin registered THEN <<"server runner not found">>
    ELSE IF t.Client \notin Hosts THEN <<"client host not found">>
    ELSE IF t.Server \notin Hosts THEN <<"server host not found">>
    ELSE IF t.Client \notin connected THEN <<"SSH client for host not connected">>
    ELSE IF t.Server \notin connected THEN <<"SSH client for host not connected">>
    ELSE <<>>

\* The checks of ExecuteTest that precede any remote call: runners
\* registered, hosts configured, connections open.  <<>> when all pass.
\* registered holds the keys of Coordinator.runners, connected the keys of
\* Coordinator.sshClients.
Preflight(c, t, registered, connected) ==
    IF GetRunnerForRole(c, "client") \notin registered THEN <<"client runner not found">>
    ELSE IF GetRunnerForRole(c, "server") \notin registered THEN <<"server runner not found">>
    ELSE IF HasFourNodeTopology(t) /\ GetRunnerForRole(c, "intermediate") \notin registered
        THEN <<"intermediate1 runner not found">>
    ELSE IF ~HasFourNodeTopology(t) /\ HasIntermediateNode(t)
            /\ GetRunnerForRole(c, "intermediate") \notin registered
        THEN <<"intermediate runner not found">>
    ELSE IF t.Client \notin Hosts THEN <<"client host not found">>
    ELSE IF t.Server \notin Hosts THEN <<"server host not found">>
    ELSE IF t.Client \notin connected THEN <<"SSH client for host not connected">>
    ELSE IF t.Server \notin connected THEN <<"SSH client for host not connected">>
    ELSE IF HasFourNodeTopology(t) THEN
        IF t.Intermediate1 \notin Hosts THEN <<"intermediate1 host not found">>
        ELSE IF t.Intermediate2 \notin Hosts THEN <<"intermediate2 host not found">>
        ELSE IF t.Intermediate1 \notin connected
            THEN <<"SSH client for intermediate1 host not connected">>
        ELSE IF t.Intermediate2 \notin connected
            THEN <<"SSH client for intermediate2 host not connected">>
        ELSE <<>>
    ELSE IF HasIntermediateNode(t) THEN
        IF t.Intermediate \notin Hosts THEN <<"intermediate host not found">>
        ELSE IF t.Intermediate \notin connected
            THEN <<"SSH client for intermediate host not connected">>
        ELSE <<>>
    ELSE <<>>

\* intermediateSSH is assigned only in the three-node branch of ExecuteTest.
intermediateSSHSet(t) == ~HasFourNodeTopology(t) /\ HasIntermediateNode(t)

\* The tasks list validateRemoteBinaries builds, by role.
validationTasks(t) ==
    <<"client", "server">> \o
    (IF intermediateSSHSet(t) THEN <<"intermediate">> ELSE <<>>)

\* Mutant of executedTopology: the three-node test comes first.
executedTopology_IntermediateFirst(t) ==
    IF HasIntermediateNode(t) THEN "3-node"
    ELSE IF HasFourNodeTopology(t) THEN "4-node"
    ELSE "2-node"

\* The function ExecuteTest dispatches to, named by the topology it runs.
executedTopology(t) ==
    IF HasFourNodeTopology(t) THEN "4-node"
    ELSE IF HasIntermediateNode(t) THEN "3-node"
    ELSE "2-node"

\* Mutant of launchOrder: four-node starts intermediate1 before intermediate2.
launchOrder_Intermediate1First(t) ==
    IF executedTopology(t) = "4-node"
    THEN <<"server", "intermediate1", "intermediate2", "client">>
    ELSE IF executedTopology(t) = "3-node"
    THEN <<"server", "intermediate", "client">>
    ELSE <<"server", "client">>

\* Roles in the order the dispatched function starts them.
launchOrder(t) ==
    IF executedTopology(t) = "4-node"
    THEN <<"server", "intermediate2", "intermediate1", "client">>
    ELSE IF executedTopology(t) = "3-node"
    THEN <<"server", "intermediate", "client">>
    ELSE <<"server", "client">>

\* The select statements that follow the server's, in order.
collectOrder(t) ==
    IF executedTopology(t) = "4-node" THEN <<"intermediate1", "intermediate2">>
    ELSE IF executedTopology(t) = "3-node" THEN <<"intermediate">>
    ELSE <<>>

\* Mutant of aggregateSuccess: result.Error is not looked at.
aggregateSuccess_IgnoresError(r) ==
    /\ r.ClientResult # <<>> /\ r.ClientResult[1].Success
    /\ (r.ServerResult = <<>> \/ r.ServerResult[1].Success)
    /\ (r.IntermediateResult = <<>> \/ r.IntermediateResult[1].Success)
    /\ (r.Intermediate1Result = <<>> \/ r.Intermediate1Result[1].Success)
    /\ (r.Intermediate2Result = <<>> \/ r.Intermediate2Result[1].Success)

\* result.Success as ExecuteTest computes it before returning.
aggregateSuccess(r) ==
    /\ r.ClientResult # <<>> /\ r.ClientResult[1].Success
    /\ (r.ServerResult = <<>> \/ r.ServerResult[1].Success)
    /\ (r.IntermediateResult = <<>> \/ r.IntermediateResult[1].Success)
    /\ (r.Intermediate1Result = <<>> \/ r.Intermediate1Result[1].Success)
    /\ (r.Intermediate2Result = <<>> \/ r.Intermediate2Result[1].Success)
    /\ r.Error = <<>>

\* The TestResult field that holds a role's Result.
resultField(role) ==
    CASE role = "client" -> "ClientResult"
      [] role = "server" -> "ServerResult"
      [] role = "intermediate" -> "IntermediateResult"
      [] role = "intermediate1" -> "Intermediate1Result"
      [] role = "intermediate2" -> "Intermediate2Result"


\* ---------------------------------------------------------- runner/runner.go
\* runner.Config.  The six map fields of a Config hold the address of a Go
\* map on the heap (0 is the nil map); a *runner.Config is the address of a
\* Config on the heap (0 is the nil pointer).  A heap is a record of the
\* Configs and of the maps allocated so far, each addressed by its position.
MapFields == <<"Args", "Env", "ServerArgs", "ClientArgs", "ServerEnv", "ClientEnv">>

\* The zero value runner.Config{}.
ZeroConfig ==
    [Duration |-> 0, Args |-> 0, Env |-> 0, ServerArgs |-> 0, ClientArgs |-> 0,
     ServerEnv |-> 0, ClientEnv |-> 0, Role |-> "", Host |-> "", TargetHost |-> "",
     Port |-> 0]

EmptyHeap == [cfgs |-> <<>>, maps |-> <<>>]

\* make(map[...]...) followed by the writes that leave it holding m; the new
\* map has address Len(h.maps) + 1.
NewMap(h, m) == [h EXCEPT !.maps = Append(@, m)]

\* for k, v := range m: the entries of the map at address a; ranging over
\* the nil map visits nothing.
entries(h, a) == IF a = 0 THEN <<>> ELSE h.maps[a]

\* for k, v := range over { base[k] = v }: base overridden key by key.
Override(base, over) ==
    [k \in DOMAIN base \cup DOMAIN over |->
        IF k \in DOMAIN over THEN over[k] ELSE base[k]]

\* A configuration document's value read into the heap.  In a value, a map
\* field is <<>> (absent) or <<m>>, and a pointer to a Config is <<>> or <<c>>.
RECURSIVE StoreMaps(_, _, _)
StoreMaps(h, c, k) ==
    IF k > Len(MapFields) THEN [h |-> h, c |-> c]
    ELSE IF c[MapFields[k]] = <<>>
    THEN StoreMaps(h, [c EXCEPT ![MapFields[k]] = 0], k + 1)
    ELSE StoreMaps(NewMap(h, c[MapFields[k]][1]),
                   [c EXCEPT ![MapFields[k]] = Len(h.maps) + 1], k + 1)

Store(h, p) ==
    IF p = <<>> THEN [h |-> h, a |-> 0]
    ELSE LET s == StoreMaps(h, p[1], 1)
         IN  [h |-> [s.h EXCEPT !.cfgs = Append(@, s.c)], a |-> Len(h.cfgs) + 1]

\* The value a pointer to a Config denotes in heap h.
View(h, a) ==
    IF a = 0 THEN <<>>
    ELSE <<[f \in DOMAIN h.cfgs[a] |->
              IF \E k \in DOMAIN MapFields : MapFields[k] = f
              THEN IF h.cfgs[a][f] = 0 THEN <<>> ELSE <<h.maps[h.cfgs[a][f]]>>
              ELSE h.cfgs[a][f]]>>

\* GetEffectiveArgs with the overlays of the two roles exchanged.
GetEffectiveArgs_OtherRoleOverlay(h, a) ==
    LET c == h.cfgs[a]
        roleArgs == CASE c.Role = "server" -> c.ClientArgs
                      [] c.Role = "client" -> c.ServerArgs
                      [] OTHER -> 0
    IN  Override(entries(h, c.Args), entries(h, roleArgs))

\* Config.GetEffectiveArgs on the Config at address a: a new map holding
\* the general arguments overridden by the overlay of the Config's role.
GetEffectiveArgs(h, a) ==
    LET c == h.cfgs[a]
        roleArgs == CASE c.Role = "server" -> c.ServerArgs
                      [] c.Role = "client" -> c.ClientArgs
                      [] OTHER -> 0
    IN  Override(entries(h, c.Args), entries(h, roleArgs))

\* Config.GetEffectiveEnv, the same over the environment maps.
GetEffectiveEnv(h, a) ==
    LET c == h.cfgs[a]
        roleEnv == CASE c.Role = "server" -> c.ServerEnv
                     [] c.Role = "client" -> c.ClientEnv
                     [] OTHER -> 0
    IN  Override(entries(h, c.Env), entries(h, roleEnv))

\* The environment keys of the model in the order sort.Strings puts them.
EnvKeyOrder == <<"CUDA_VISIBLE_DEVICES", "LD_LIBRARY_PATH">>

\* Environment values that hold a blank, a quote or another character of
\* strings.ContainsAny(value, " \t\n\"'$`\\").
NeedQuoting == {"/opt/my libs"}

\* Command text is the sequence of the pieces that were concatenated.
\* fmt.Sprintf("%s=%s", key, value) with the value quoted when needed.
envPart(key, value) ==
    IF value \in NeedQuoting THEN <<key, "=", "'", value, "'">> ELSE <<key, "=", value>>

RECURSIVE envParts(_, _, _)
envParts(env, keys, k) ==
    IF k > Len(keys) THEN <<>>
    ELSE envPart(keys[k], env[keys[k]]) \o <<" ">> \o envParts(env, keys, k + 1)

\* buildEnvPrefix: "K1=v1 K2=v2 " over the sorted keys of the effective
\* environment, the empty string when there is none.
buildEnvPrefix(h, a) ==
    LET effectiveEnv == GetEffectiveEnv(h, a)
        keys == SelectSeq(EnvKeyOrder, LAMBDA k : k \in DOMAIN effectiveEnv)
    IN  envParts(effectiveEnv, keys, 1)

\* The orders in which a range statement can visit the keys of map m.
RangeOrders(m) ==
    {q \in [1..Cardinality(DOMAIN m) -> DOMAIN m] :
        \A x, y \in DOMAIN q : x # y => q[x] # q[y]}

\* NewIperf3Runner("") / NewIbSendBwRunner(""): the default executable.
executablePath(name) == name

\* SupportsRole, the same for Iperf3Runner and IbSendBwRunner.
SupportsRole(role) == role \in {"client", "server", "intermediate"}

\* Iperf3Runner.Validate on the Config at address a: the error, <<>> for nil.
Iperf3Validate(h, a) ==
    LET c == h.cfgs[a]
        effectiveArgs == GetEffectiveArgs(h, a)
    IN  IF ~SupportsRole(c.Role) THEN <<"unsupported role", c.Role>>
        ELSE IF c.Role = "client" /\ c.TargetHost = "" /\ c.Host = ""
        THEN <<"target_host or host is required for client role">>
        ELSE IF c.Role = "intermediate" /\ c.TargetHost = "" /\ c.Host = ""
        THEN <<"target_host or host is required for intermediate role">>
        ELSE IF /\ "parallel_streams" \in DOMAIN effectiveArgs
                /\ effectiveArgs["parallel_streams"] <= 0
        THEN <<"parallel_streams must be greater than 0">>
        ELSE IF c.Port < 0 \/ c.Port > 65535
        THEN <<"port must be between 0 and 65535">>
        ELSE <<>>

\* Mutant of IbSendBwValidate: an intermediate needs no address.
IbSendBwValidate_IntermediateUnchecked(h, a) ==
    LET c == h.cfgs[a]
    IN  IF ~SupportsRole(c.Role) THEN <<"unsupported role", c.Role>>
        ELSE IF c.Role = "client" /\ c.TargetHost = "" /\ c.Host = ""
        THEN <<"target_host or host is required for client role">>
        ELSE <<>>

\* IbSendBwRunner.Validate.
IbSendBwValidate(h, a) ==
    LET c == h.cfgs[a]
    IN  IF ~SupportsRole(c.Role) THEN <<"unsupported role", c.Role>>
        ELSE IF c.Role = "client" /\ c.TargetHost = "" /\ c.Host = ""
        THEN <<"target_host or host is required for client role">>
        ELSE IF c.Role = "intermediate" /\ c.TargetHost = "" /\ c.Host = ""
        THEN <<"target_host or host is required for intermediate role">>
        ELSE <<>>

\* validModes of TestpmdRunner.Validate.
validModes == {"io", "mac", "macswap", "flowgen", "rxonly", "txonly", "csum",
               "icmpecho", "ieee1588", "tm"}

\* The port specifications of the model: which of them contain "," or "-",
\* and which of them strconv.Atoi converts.
PortSpecs == {"0,1", "0", "eth0"}
IsPortList(spec) == spec \in {"0,1"}
AtoiOk(spec) == spec \in {"0"}

\* TestpmdRunner.Validate.  "cores" and "memory_channels" hold an int and
\* "ports" and "forward_mode" a string whenever they are given.
TestpmdValidate(h, a) ==
    LET c == h.cfgs[a]
        effectiveArgs == GetEffectiveArgs(h, a)
    IN  IF ~SupportsRole(c.Role) THEN <<"unsupported role", c.Role>>
        ELSE IF "cores" \in DOMAIN effectiveArgs /\ effectiveArgs["cores"] <= 0
        THEN <<"cores must be greater than 0">>
        ELSE IF /\ "memory_channels" \in DOMAIN effectiveArgs
                /\ (\/ effectiveArgs["memory_channels"] <= 0
                    \/ effectiveArgs["memory_channels"] > 8)
        THEN <<"memory_channels must be between 1 and 8">>
        ELSE IF /\ "ports" \in DOMAIN effectiveArgs
                /\ ~IsPortList(effectiveArgs["ports"])
                /\ ~AtoiOk(effectiveArgs["ports"])
        THEN <<"invalid port specification", effectiveArgs["ports"]>>
        ELSE IF /\ c.Role = "intermediate"
                /\ "forward_mode" \in DOMAIN effectiveArgs
                /\ effectiveArgs["forward_mode"] \notin validModes
        THEN <<"invalid forward_mode", effectiveArgs["forward_mode"]>>
        ELSE <<>>

\* r.Validate(*config) of the runner registered under name.
Validate(name, h, a) ==
    IF name = "iperf3" THEN Iperf3Validate(h, a)
    ELSE IF name = "testpmd" THEN TestpmdValidate(h, a)
    ELSE IbSendBwValidate(h, a)

\* targetHost := config.TargetHost; if targetHost == "" { targetHost = config.Host }
targetHostOf(c) == IF c.TargetHost = "" THEN c.Host ELSE c.TargetHost

\* listenPort = 5201 // Default iperf3 port
DefaultIperf3Port == 5201

\* One case of the switch over an argument key in Iperf3Runner.BuildCommand.
iperf3Flag(key, value) ==
    CASE key = "parallel_streams" /\ value > 0 -> <<" -P ", ToString(value)>>
      [] key = "interval" /\ value > 0 -> <<" -i ", ToString(value)>>
      [] OTHER -> <<>>

\* The switch over the argument key in IbSendBwRunner.BuildCommand: the
\* flag of each key, by the type its value is asserted to have.
IntFlags ==
    [size |-> " -s ", iterations |-> " -n ", tx_depth |-> " -t ",
     rx_depth |-> " -r ", mtu |-> " -m ", qp |-> " -q ", inline |-> " -I ",
     gid_index |-> " -x ", sl |-> " -S "]
StringFlags == [connection |-> " -c ", ib_dev |-> " -d "]
FloatFlags == [cpu_freq |-> " -F "]
BoolFlags ==
    [use_event |-> " -e", bidirectional |-> " -b", report_cycles |-> " -C",
     report_histogram |-> " -H", odp |-> " -o", report_gbits |-> " -R"]

RECURSIVE Pow10(_)
Pow10(n) == IF n <= 0 THEN 1 ELSE 10 * Pow10(n - 1)

\* fmt.Sprintf("%.2f", x) of the decimal x.m * 10^x.e, x not negative: the
\* hundredths nearest to x, written with a point before the last two digits.
FormatFloat2(x) ==
    LET h == IF x.e >= -2 THEN x.m * Pow10(x.e + 2)
             ELSE (x.m + 5 * Pow10(-x.e - 3)) \div Pow10(-x.e - 2)
    IN  <<ToString(h \div 100), ".", ToString((h % 100) \div 10),
          ToString(h % 10)>>

\* A variant in which a boolean parameter emits its flag whatever it holds.
ibSendBwFlag_FalseEmits(key, value) ==
    CASE key \in DOMAIN IntFlags -> <<IntFlags[key], ToString(value)>>
      [] key \in DOMAIN StringFlags -> <<StringFlags[key], value>>
      [] key \in DOMAIN FloatFlags -> <<FloatFlags[key]>> \o FormatFloat2(value)
      [] key \in DOMAIN BoolFlags -> <<BoolFlags[key]>>
      [] OTHER -> <<>>

\* One case of the switch in IbSendBwRunner.BuildCommand.  A key of the
\* tables holds a value of its table's type whenever it is given.
ibSendBwFlag(key, value) ==
    CASE key \in DOMAIN IntFlags -> <<IntFlags[key], ToString(value)>>
      [] key \in DOMAIN StringFlags -> <<StringFlags[key], value>>
      [] key \in DOMAIN FloatFlags -> <<FloatFlags[key]>> \o FormatFloat2(value)
      [] key \in DOMAIN BoolFlags /\ value -> <<BoolFlags[key]>>
      [] OTHER -> <<>>

\* for key, value := range effectiveArgs { switch key ... }, the keys
\* visited in the given order.
RECURSIVE argFlags(_, _, _, _)
argFlags(name, effectiveArgs, order, k) ==
    IF k > Len(order) THEN <<>>
    ELSE (IF name = "iperf3"
          THEN iperf3Flag(order[k], effectiveArgs[order[k]])
          ELSE ibSendBwFlag(order[k], effectiveArgs[order[k]]))
         \o argFlags(name, effectiveArgs, order, k + 1)

\* Iperf3Runner.BuildCommand on the Config at address a, its range over the
\* effective arguments visiting the keys in the given order.
Iperf3BuildCommand(h, a, order) ==
    LET c == h.cfgs[a]
        listenPort == IF c.Port <= 0 THEN DefaultIperf3Port ELSE c.Port
    IN  IF c.Role = "intermediate"
        THEN buildEnvPrefix(h, a) \o
             <<"socat", " TCP-LISTEN:", ToString(listenPort), ",fork TCP:",
               targetHostOf(c), ":", ToString(listenPort)>>
        ELSE buildEnvPrefix(h, a) \o <<executablePath("iperf3")>> \o
             (CASE c.Role = "server" -> <<" -s">>
                [] c.Role = "client" -> <<" -c ", targetHostOf(c)>>
                [] OTHER -> <<>>) \o
             (IF c.Port > 0 THEN <<" -p ", ToString(c.Port)>> ELSE <<>>) \o
             (IF c.Duration > 0 THEN <<" -t ", ToString(c.Duration)>> ELSE <<>>) \o
             <<" -J">> \o
             argFlags("iperf3", GetEffectiveArgs(h, a), order, 1)

\* IbSendBwRunner.BuildCommand.
IbSendBwBuildCommand(h, a, order) ==
    LET c == h.cfgs[a]
    IN  buildEnvPrefix(h, a) \o <<executablePath("ib_send_bw")>> \o
        (CASE c.Role = "client" /\ targetHostOf(c) # "" -> <<" ", targetHostOf(c)>>
           [] c.Role = "intermediate" /\ targetHostOf(c) # "" ->
                <<" -F", " --forward-to ", targetHostOf(c)>>
           [] c.Role = "intermediate" -> <<" -F">>
           [] OTHER -> <<>>) \o
        (IF c.Port > 0 THEN <<" -p ", ToString(c.Port)>> ELSE <<>>) \o
        (IF c.Duration > 0 THEN <<" -D ", ToString(c.Duration)>> ELSE <<>>) \o
        argFlags("ib_send_bw", GetEffectiveArgs(h, a), order, 1)

\* r.BuildCommand(*config) of the runner registered under name.
BuildCommand(name, h, a, order) ==
    IF name = "iperf3" THEN Iperf3BuildCommand(h, a, order)
    ELSE IbSendBwBuildCommand(h, a, order)

\* ------------------------------------------------ runner: the registry
\* The names the init functions of package runner register.
RegisteredRunners == {"iperf3", "ib_send_bw", "testpmd"}

\* NewIperf3Runner(""), NewIbSendBwRunner(""), NewTestpmdRunner(""),
\* &TestRunner{name: ...}: the instance a factory returns, the factory being
\* named by the runner it makes.
NewRunner(factory) ==
    [name |-> factory,
     executablePath |-> IF factory = "testpmd" THEN "dpdk-testpmd" ELSE factory]

\* runner.SetExecutablePath(path) on the instance at address a
SetPath(instances, a, path) ==
    [instances EXCEPT ![a].executablePath = path]

\* A variant whose factories hand out one instance per name.
CreateWithPath_Shared(reg, instances, name, binaryPath) ==
    IF name \notin DOMAIN reg
    THEN [instances |-> instances, runner |-> 0,
          err |-> <<"runner", name, "not found">>]
    ELSE LET made == {a \in DOMAIN instances :
                         instances[a].name = reg[name]}
             a == IF made = {} THEN Len(instances) + 1
                  ELSE CHOOSE x \in made : TRUE
             all == IF made = {}
                    THEN Append(instances, NewRunner(reg[name]))
                    ELSE instances
         IN  [instances |-> IF binaryPath # "" THEN SetPath(all, a, binaryPath)
                            ELSE all,
              runner |-> a, err |-> <<>>]

\* The body of CreateWithPath(name, binaryPath) under the read lock: the
\* instances that exist afterwards, the address returned (0 for nil) and
\* the error, its text in pieces.
CreateWithPath(reg, instances, name, binaryPath) ==
    IF name \notin DOMAIN reg
    THEN [instances |-> instances, runner |-> 0,
          err |-> <<"runner", name, "not found">>]
    ELSE LET a == Len(instances) + 1
             all == Append(instances, NewRunner(reg[name]))
         IN  [instances |-> IF binaryPath # "" THEN SetPath(all, a, binaryPath)
                            ELSE all,
              runner |-> a, err |-> <<>>]

\* cmd := r.executablePath, the head of the command an instance builds
CommandHead(instances, a) == instances[a].executablePath

\* ------------------------------------------------ runner: ParseMetrics
\* Captured output is the sequence of its lines (strings.Split on "\n") and
\* a line the sequence of its whitespace-separated fields (strings.Fields).
\* A float64 is the decimal m * 10^e with m not divisible by ten, so that
\* equal numbers are equal values; binary rounding is not followed.
Dec(m, e) == [m |-> m, e |-> e]

RECURSIVE Norm(_)
Norm(x) ==
    IF x.m = 0 THEN Dec(0, 0)
    ELSE IF x.m % 10 = 0 THEN Norm(Dec(x.m \div 10, x.e + 1))
    ELSE x

\* x * 1e6, x / 1e3, ...: a factor 10^k
Scale(x, k) == Norm(Dec(x.m, x.e + k))

\* x * n for a small integer n
Times(x, n) == Norm(Dec(x.m * n, x.e))

\* int(x), int64(x) of a value that is not negative
RECURSIVE Trunc(_)
Trunc(x) == IF x.e >= 0 THEN Norm(x) ELSE Trunc(Dec(x.m \div 10, x.e + 1))

\* strconv.ParseFloat(field, 64) on the fields that occur in the outputs
\* below: one value for a numeric field, none (an error) for any other.
Numbers ==
    ("0" :> Dec(0, 0)) @@ ("4" :> Dec(4, 0)) @@ ("15" :> Dec(15, 0)) @@
    ("932" :> Dec(932, 0)) @@ ("934" :> Dec(934, 0)) @@
    ("1.5" :> Dec(15, -1)) @@ ("0.17" :> Dec(17, -2)) @@
    ("1000" :> Dec(1, 3)) @@ ("65536" :> Dec(65536, 0)) @@
    ("11000.5" :> Dec(110005, -1)) @@ ("10950.2" :> Dec(109502, -1)) @@
    ("934000000" :> Dec(934, 6)) @@ ("987000000" :> Dec(987, 6))

ParseFloat(field) ==
    IF field \in DOMAIN Numbers THEN <<Numbers[field]>> ELSE <<>>

\* strconv.Atoi(field): the numeric fields without a fraction
Atoi(field) ==
    IF field \in DOMAIN Numbers /\ Numbers[field].e >= 0
    THEN <<Numbers[field]>>
    ELSE <<>>

\* The patterns the parsers search for that occur inside a field.
Substrings(field) ==
    CASE field \in {"Mbits/sec", "Gbits/sec", "MB/sec", "Gb/sec", "GB/sec"}
            -> {field, "sec"}
      [] field \in {"peak[MB/sec]", "average[MB/sec]"} -> {"MB/sec", "sec"}
      [] field = "MsgRate[Mpps]" -> {"Mpps", "pps"}
      [] field \in {"Mpps", "Kpps"} -> {field, "pps"}
      [] field = "\"start\":" -> {"\"start\""}
      [] field = "\"end\":" -> {"\"end\""}
      [] field = "\"bits_per_second\":" -> {"\"bits_per_second\""}
      [] field = "\"retransmits\":" -> {"\"retransmits\""}
      [] field = "\"streams\":" -> {"\"streams\""}
      [] field = "\"duration\":" -> {"\"duration\""}
      [] OTHER -> {field}

\* strings.Contains(line, sub)
Contains(fields, sub) ==
    \E k \in DOMAIN fields : sub \in Substrings(fields[k])

\* strings.Contains(output, sub)
OutputContains(lines, sub) ==
    \E l \in DOMAIN lines : Contains(lines[l], sub)

\* A variant that stores the native value under every key.
textBandwidth_NoScale(unit, bw) ==
    [bandwidth_mbps |-> bw, bandwidth_bps |-> bw, bandwidth_gbps |-> bw]

\* The three bandwidth keys parseTextMetrics writes for one unit.
textBandwidth(unit, bw) ==
    IF unit = "Mbits/sec"
    THEN [bandwidth_mbps |-> bw, bandwidth_bps |-> Scale(bw, 6),
          bandwidth_gbps |-> Scale(bw, -3)]
    ELSE [bandwidth_gbps |-> bw, bandwidth_bps |-> Scale(bw, 9),
          bandwidth_mbps |-> Scale(bw, 3)]

\* for i, field := range fields { if field == unit && i > 0 { ...; break } }
RECURSIVE bandwidthField(_, _, _, _)
bandwidthField(metrics, fields, unit, k) ==
    IF k > Len(fields) THEN metrics
    ELSE IF fields[k] = unit /\ k > 1
    THEN IF ParseFloat(fields[k - 1]) # <<>>
         THEN Override(metrics, textBandwidth(unit, ParseFloat(fields[k - 1])[1]))
         ELSE metrics
    ELSE bandwidthField(metrics, fields, unit, k + 1)

\* The retransmit loop: the field after a unit field, when Atoi takes it,
\* and only then the loop breaks.
RECURSIVE retransmitsField(_, _, _)
retransmitsField(metrics, fields, k) ==
    IF k > Len(fields) THEN metrics
    ELSE IF /\ fields[k] \in {"Mbits/sec", "Gbits/sec"}
            /\ k < Len(fields)
            /\ Atoi(fields[k + 1]) # <<>>
    THEN Override(metrics, [retransmits |-> Atoi(fields[k + 1])[1]])
    ELSE retransmitsField(metrics, fields, k + 1)

\* A variant in which a line leaves a bandwidth already found alone.
parseTextLine_KeepFirst(metrics, fields) ==
    IF "bandwidth_bps" \in DOMAIN metrics THEN metrics
    ELSE LET m1 == IF Contains(fields, "Mbits/sec")
                   THEN bandwidthField(metrics, fields, "Mbits/sec", 1)
                   ELSE IF Contains(fields, "Gbits/sec")
                   THEN bandwidthField(metrics, fields, "Gbits/sec", 1)
                   ELSE metrics
         IN  IF Contains(fields, "Mbits/sec") \/ Contains(fields, "Gbits/sec")
             THEN retransmitsField(m1, fields, 1)
             ELSE m1

\* The body of parseTextMetrics' loop for one line.
parseTextLine(metrics, fields) ==
    LET m1 == IF Contains(fields, "Mbits/sec")
              THEN bandwidthField(metrics, fields, "Mbits/sec", 1)
              ELSE IF Contains(fields, "Gbits/sec")
              THEN bandwidthField(metrics, fields, "Gbits/sec", 1)
              ELSE metrics
    IN  IF /\ Contains(fields, "Mbits/sec") \/ Contains(fields, "Gbits/sec")
           /\ Contains(fields, "sec")
        THEN retransmitsField(m1, fields, 1)
        ELSE m1

\* parseTextMetrics(result, output): every line in turn, each writing over
\* what an earlier line wrote.
RECURSIVE parseTextMetrics(_, _, _)
parseTextMetrics(metrics, lines, l) ==
    IF l > Len(lines) THEN metrics
    ELSE parseTextMetrics(parseTextLine(metrics, lines[l]), lines, l + 1)

\* strings.Index(text, keyPattern): the first field holding the key, as
\* <<line, field>>, or <<>>.
RECURSIVE keyIndex(_, _, _)
keyIndex(lines, key, l) ==
    IF l > Len(lines) THEN <<>>
    ELSE IF Contains(lines[l], key)
    THEN <<l, CHOOSE k \in DOMAIN lines[l] :
                /\ key \in Substrings(lines[l][k])
                /\ \A j \in 1..(k - 1) : key \notin Substrings(lines[l][j])>>
    ELSE keyIndex(lines, key, l + 1)

\* strings.TrimSpace(text[valueStart:]) up to the next line end: the fields
\* that follow the key on its line, else the next line that has any.
RECURSIVE valueText(_, _, _)
valueText(lines, l, k) ==
    IF l > Len(lines) THEN <<>>
    ELSE IF k <= Len(lines[l]) THEN SubSeq(lines[l], k, Len(lines[l]))
    ELSE valueText(lines, l + 1, 1)

extractNumericValue(lines, key) ==
    LET at == keyIndex(lines, key, 1)
    IN  IF at = <<>> THEN Dec(-1, 0)
        ELSE LET valueStr == valueText(lines, at[1], at[2] + 1)
             IN  IF Len(valueStr) = 1 /\ ParseFloat(valueStr[1]) # <<>>
                 THEN ParseFloat(valueStr[1])[1]
                 ELSE Dec(-1, 0)

parseJSONMetrics(metrics, lines) ==
    LET bps == extractNumericValue(lines, "\"bits_per_second\"")
        retrans == extractNumericValue(lines, "\"retransmits\"")
        streams == extractNumericValue(lines, "\"streams\"")
        duration == extractNumericValue(lines, "\"duration\"")
        m1 == IF bps.m > 0
              THEN Override(metrics, [bandwidth_bps |-> bps,
                                      bandwidth_mbps |-> Scale(bps, -6),
                                      bandwidth_gbps |-> Scale(bps, -9)])
              ELSE metrics
        m2 == IF OutputContains(lines, "\"retransmits\"") /\ retrans.m >= 0
              THEN Override(m1, [retransmits |-> Trunc(retrans)])
              ELSE m1
        m3 == IF OutputContains(lines, "\"streams\"") /\ streams.m > 0
              THEN Override(m2, [parallel_streams |-> Trunc(streams)])
              ELSE m2
    IN  IF OutputContains(lines, "\"duration\"") /\ duration.m > 0
        THEN Override(m3, [actual_duration |-> duration])
        ELSE m3

\* (r *Iperf3Runner) ParseMetrics(result) for a result that is not nil and
\* whose Metrics is the empty map runRemoteCommand made.
Iperf3ParseMetrics(output) ==
    [metrics |-> IF /\ OutputContains(output, "\"start\"")
                    /\ OutputContains(output, "\"end\"")
                 THEN parseJSONMetrics(<<>>, output)
                 ELSE parseTextMetrics(<<>>, output, 1),
     err |-> <<>>]

\* The switch on the field's index in parseResultLine.
positional(i, value) ==
    CASE i = 0 -> [bytes |-> Trunc(value)]
      [] i = 1 -> [iterations |-> Trunc(value)]
      [] i = 2 -> [bandwidth_peak_mbps |-> value,
                   bandwidth_peak_bps |-> Times(Scale(value, 6), 8)]
      [] i = 3 -> [bandwidth_average_mbps |-> value,
                   bandwidth_average_bps |-> Times(Scale(value, 6), 8)]
      [] i = 4 -> [message_rate_mpps |-> value,
                   message_rate_pps |-> Scale(value, 6)]
      [] OTHER -> <<>>

RECURSIVE positionalFields(_, _, _)
positionalFields(metrics, fields, k) ==
    IF k > Len(fields) THEN metrics
    ELSE LET v == ParseFloat(fields[k])
         IN  positionalFields(
                 IF v # <<>> /\ v[1].m > 0
                 THEN Override(metrics, positional(k - 1, v[1]))
                 ELSE metrics,
                 fields, k + 1)

\* regexp FindStringSubmatch of `(\d+\.?\d*)\s*(unit|...)`: the leftmost
\* numeric field followed by a unit field, as its index, or <<>>.
regexMatch(fields, units) ==
    LET hits == {k \in 1..(Len(fields) - 1) :
                    ParseFloat(fields[k]) # <<>> /\ fields[k + 1] \in units}
    IN  IF hits = {} THEN <<>>
        ELSE <<CHOOSE k \in hits : \A j \in hits : k <= j>>

unitBandwidth(unit, bw) ==
    CASE unit = "MB/sec" -> [bandwidth_mbps |-> bw,
                             bandwidth_bps |-> Times(Scale(bw, 6), 8)]
      [] unit = "GB/sec" -> [bandwidth_gbps |-> bw,
                             bandwidth_bps |-> Times(Scale(bw, 9), 8)]
      [] unit = "Gb/sec" -> [bandwidth_gbps |-> bw,
                             bandwidth_bps |-> Scale(bw, 9)]

unitRate(unit, rate) ==
    CASE unit = "Mpps" -> [message_rate_mpps |-> rate,
                           message_rate_pps |-> Scale(rate, 6)]
      [] unit = "Kpps" -> [message_rate_kpps |-> rate,
                           message_rate_pps |-> Scale(rate, 3)]
      [] unit = "pps" -> [message_rate_pps |-> rate]

\* (r *IbSendBwRunner) parseResultLine(line, result)
parseResultLine(metrics, fields) ==
    LET m1 == IF Len(fields) >= 4
              THEN positionalFields(metrics, fields, 1)
              ELSE metrics
        bw == regexMatch(fields, {"MB/sec", "Gb/sec", "GB/sec"})
        m2 == IF bw = <<>> THEN m1
              ELSE Override(
                       Override(m1, unitBandwidth(fields[bw[1] + 1],
                                                  ParseFloat(fields[bw[1]])[1])),
                       [bandwidth_readable |->
                            <<fields[bw[1]], fields[bw[1] + 1]>>])
        rate == regexMatch(fields, {"Mpps", "Kpps", "pps"})
    IN  IF rate = <<>> THEN m2
        ELSE Override(m2, unitRate(fields[rate[1] + 1],
                                   ParseFloat(fields[rate[1]])[1]))

\* strings.HasPrefix(dataLine, "#")
HasHashPrefix(fields) ==
    fields # <<>> /\ fields[1] \in {"#bytes", "#iterations"}

\* The first loop of (r *IbSendBwRunner) ParseMetrics: the line after the
\* first table header, then break; before that header, every single result
\* line.
RECURSIVE resultsTable(_, _, _)
resultsTable(metrics, lines, i) ==
    IF i > Len(lines) THEN metrics
    ELSE IF Contains(lines[i], "#bytes") /\ Contains(lines[i], "BW")
    THEN IF /\ i < Len(lines)
            /\ lines[i + 1] # <<>>
            /\ ~HasHashPrefix(lines[i + 1])
         THEN parseResultLine(metrics, lines[i + 1])
         ELSE metrics
    ELSE IF Contains(lines[i], "MB/sec") \/ Contains(lines[i], "Gb/sec")
    THEN resultsTable(parseResultLine(metrics, lines[i]), lines, i + 1)
    ELSE resultsTable(metrics, lines, i + 1)

\* (r *IbSendBwRunner) ParseMetrics(result).  The second loop (connection
\* type, MTU, message size, number of qps) reads lines that none of the
\* outputs below has, and writes no bandwidth key.
IbSendBwParseMetrics(output) ==
    [metrics |-> resultsTable(<<>>, output, 1), err |-> <<>>]

\* runner.ParseMetrics(result) through the Runner interface
ParseMetrics(name, output) ==
    IF name = "iperf3" THEN Iperf3ParseMetrics(output)
    ELSE IbSendBwParseMetrics(output)

\* -------------------------------------------------------- config/config.go
\* The six "if result.X == nil { result.X = make(...) }" of a copied Config.
RECURSIVE makeNilMaps(_, _, _)
makeNilMaps(h, c, k) ==
    IF k > Len(MapFields) THEN [h |-> h, c |-> c]
    ELSE IF c[MapFields[k]] = 0
    THEN makeNilMaps(NewMap(h, <<>>), [c EXCEPT ![MapFields[k]] = Len(h.maps) + 1], k + 1)
    ELSE makeNilMaps(h, c, k + 1)

\* copyConfig without the copy: the nil maps are made in the Config at a and
\* a itself is returned.
copyConfig_NoCopy(h, a) ==
    LET s == makeNilMaps(h, h.cfgs[a], 1)
    IN  [h |-> [s.h EXCEPT !.cfgs[a] = s.c], a |-> a]

\* result := *config // Copy; the nil maps made; return &result
copyConfig(h, a) ==
    LET s == makeNilMaps(h, h.cfgs[a], 1)
    IN  [h |-> [s.h EXCEPT !.cfgs = Append(@, s.c)], a |-> Len(h.cfgs) + 1]

\* MergeRunnerConfig with the host-level entries written last.
MergeRunnerConfig_HostWins(h, hostConfig, testConfig) ==
    IF hostConfig = 0 /\ testConfig = 0
    THEN LET s == makeNilMaps(h, ZeroConfig, 1)
         IN  [h |-> [s.h EXCEPT !.cfgs = Append(@, s.c)], a |-> Len(h.cfgs) + 1]
    ELSE IF hostConfig = 0 THEN copyConfig(h, testConfig)
    ELSE IF testConfig = 0 THEN copyConfig(h, hostConfig)
    ELSE LET hc == h.cfgs[hostConfig]
             tc == h.cfgs[testConfig]
             base == Len(h.maps)
             made == [k \in 1..Len(MapFields) |->
                        Override(entries(h, tc[MapFields[k]]),
                                 entries(h, hc[MapFields[k]]))]
             merged == [Duration |-> IF tc.Duration > 0 THEN tc.Duration ELSE hc.Duration,
                        Args |-> base + 1, Env |-> base + 2,
                        ServerArgs |-> base + 3, ClientArgs |-> base + 4,
                        ServerEnv |-> base + 5, ClientEnv |-> base + 6,
                        Role |-> IF tc.Role # "" THEN tc.Role ELSE hc.Role,
                        Host |-> IF tc.Host # "" THEN tc.Host ELSE hc.Host,
                        TargetHost |-> IF tc.TargetHost # "" THEN tc.TargetHost
                                       ELSE hc.TargetHost,
                        Port |-> IF tc.Port > 0 THEN tc.Port ELSE hc.Port]
         IN  [h |-> [cfgs |-> Append(h.cfgs, merged), maps |-> h.maps \o made],
              a |-> Len(h.cfgs) + 1]

\* TestConfig.MergeRunnerConfig(hostConfig, testConfig) in heap h: the heap
\* after the call and the address it returns.
MergeRunnerConfig(h, hostConfig, testConfig) ==
    IF hostConfig = 0 /\ testConfig = 0
    THEN LET s == makeNilMaps(h, ZeroConfig, 1)
         IN  [h |-> [s.h EXCEPT !.cfgs = Append(@, s.c)], a |-> Len(h.cfgs) + 1]
    ELSE IF hostConfig = 0 THEN copyConfig(h, testConfig)
    ELSE IF testConfig = 0 THEN copyConfig(h, hostConfig)
    ELSE LET hc == h.cfgs[hostConfig]
             tc == h.cfgs[testConfig]
             base == Len(h.maps)
             made == [k \in 1..Len(MapFields) |->
                        Override(entries(h, hc[MapFields[k]]),
                                 entries(h, tc[MapFields[k]]))]
             merged == [Duration |-> IF tc.Duration > 0 THEN tc.Duration ELSE hc.Duration,
                        Args |-> base + 1, Env |-> base + 2,
                        ServerArgs |-> base + 3, ClientArgs |-> base + 4,
                        ServerEnv |-> base + 5, ClientEnv |-> base + 6,
                        Role |-> IF tc.Role # "" THEN tc.Role ELSE hc.Role,
                        Host |-> IF tc.Host # "" THEN tc.Host ELSE hc.Host,
                        TargetHost |-> IF tc.TargetHost # "" THEN tc.TargetHost
                                       ELSE hc.TargetHost,
                        Port |-> IF tc.Port > 0 THEN tc.Port ELSE hc.Port]
         IN  [h |-> [cfgs |-> Append(h.cfgs, merged), maps |-> h.maps \o made],
              a |-> Len(h.cfgs) + 1]


\* ------------------------------------------------------------------ state
VARIABLES
    tests,      \* TestConfig.Tests, the scenarios of the configuration document
    i,          \* RunAllTests: index of the scenario being run
    pc,         \* where the driving task (App.Run / RunAllTests / ExecuteTest) is
    j,          \* RunAllTests: iteration counter of the repeat loop
    results,    \* RunAllTests: the results slice
    result,     \* ExecuteTest: the TestResult under construction
    retErr,     \* ExecuteTest: the error it returned (<<>> = nil)
    task,       \* per role: state of its runRemoteCommand call and what it returned
    expired,    \* testCtx is done (deadline passed, or cancelled on return)
    vi,         \* validateRemoteBinaries: index of the next validation task
    checked,    \* roles whose executable check command has been run
    li,         \* index into launchOrder of the next role to start
    launched,   \* roles whose task was started, in order, with the settle count then
    settles,    \* settle delays that have elapsed in this run
    issued,     \* roles whose benchmark command reached ExecuteCommand
    deadline,   \* what the tasks were doing when the deadline of testCtx passed
    delays,     \* inter-repeat delays RunAllTests has waited
    heap,       \* the runner.Config structs and the Go maps allocated so far
    hostRunner, \* per host: HostConfig.Runner, the address of its Config (0 = nil)
    testConfig, \* TestScenario.Config, the address of the shared template (0 = nil)
    roleConfig, \* ExecuteTest: per role, the address of its merged Config
    shown,      \* per role: the command text recorded in the TestResult
    sent,       \* per role: <<text>> once a command was passed to ExecuteCommand
    call,       \* a single function call: the function and its arguments
    ret,        \* the values that call has returned, in order
    app,        \* where App.Run is between ConnectHosts and Cleanup
    gor,        \* ConnectHosts: per host, where its connection task is
    conn,       \* per host: whether Client.client of its ssh.Client is set
    held,       \* the keys of Coordinator.sshClients
    errCh,      \* ConnectHosts: hosts whose task sent an error to errCh
    writing,    \* hosts whose task is in the middle of its write of sshClients
    raced,      \* hosts whose write of sshClients overlapped another write
    connectErr, \* the error ConnectHosts returned (<<>> = nil)
    closeCalls, \* per host: how often Close ran on its ssh.Client
    closeLog,   \* hosts whose Close error Cleanup has logged
    cleanups,   \* how often Cleanup has returned
    parseFails, \* roles whose runner's ParseMetrics returns an error
    warnings,   \* roles for which "failed to parse metrics" was logged
    registry,   \* globalRegistry.runners: name -> factory
    mu,         \* globalRegistry.mu: the writer and the readers holding it
    instances,  \* the Runner instances the factories have made
    caller,     \* the tasks that call the registry, and what they got back
    coordRunners, \* the keys of Coordinator.runners
    runnerConf  \* TestConfig.Runner and TestConfig.Runners

vars == <<tests, i, pc, j, results, result, retErr, task, expired, vi, checked,
          li, launched, settles, issued, deadline, delays, heap, hostRunner,
          testConfig, roleConfig, shown, sent, call, ret, app, gor, conn, held,
          errCh, writing, raced, connectErr, closeCalls, closeLog, cleanups,
          parseFails, warnings, registry, mu, instances,
          caller, coordRunners, runnerConf>>

\* The state of the configuration objects and of a single function call.
confVars == <<heap, hostRunner, testConfig, roleConfig, shown, sent, call, ret>>

\* The state of the connections.
connVars == <<app, gor, conn, held, errCh, writing, raced, connectErr, closeCalls,
             closeLog, cleanups>>

\* What ParseMetrics does and what was logged about it.
parseVars == <<parseFails, warnings>>

\* The runner registry and its callers.
regVars == <<registry, mu, instances, caller>>

\* What has been registered with the coordinator.
coordVars == <<coordRunners, runnerConf>>

auxVars == <<confVars, connVars, parseVars, regVars, coordVars>>

cfgVars == <<tests, i, j, results, delays>>
runVars == <<result, retErr, task, expired, vi, checked, li, launched, settles,
            issued, deadline>>

\* The deadline of testCtx has not passed.
NoDeadline == [hit |-> FALSE, inflight |-> {}, delivered |-> {}]

\* for i, test := range c.config.Tests
test == tests[i]

\* repeat := test.Repeat; if repeat <= 0 { repeat = 1 }
repeatOf(t) == IF t.Repeat <= 0 THEN 1 ELSE t.Repeat

\* ValidateConfig's loop over the scenarios: the first error, <<>> for nil.
RECURSIVE validateTests(_, _)
validateTests(ts, k) ==
    IF k > Len(ts) THEN <<>>
    ELSE IF validateTestScenario(ts[k]) # <<>> THEN validateTestScenario(ts[k])
    ELSE validateTests(ts, k + 1)

\* No configuration object is followed and no single call is being made.
NoCall == [fn |-> "", runner |-> "", config |-> 0, testConfig |-> 0]

\* Every host connected and held, ConnectHosts having returned nil.
InitConn ==
    /\ app = "connected"
    /\ gor = [h \in Hosts |-> "written"]
    /\ conn = [h \in Hosts |-> "open"]
    /\ held = sshClients
    /\ errCh = {}
    /\ writing = {}
    /\ raced = {}
    /\ connectErr = <<>>
    /\ closeCalls = [h \in Hosts |-> 0]
    /\ closeLog = {}
    /\ cleanups = 0

\* Every runner's ParseMetrics returns nil.
InitParse ==
    /\ parseFails = {}
    /\ warnings = {}

\* The tasks that call the registry.
Callers == {"t1", "t2"}

NoOp == [pc |-> "idle", op |-> "", name |-> "", path |-> "", runner |-> 0,
         err |-> <<>>, names |-> {}, ops |-> 0]

\* The registry after the init functions have run; nobody is calling it.
InitReg ==
    /\ registry = [n \in RegisteredRunners |-> n]
    /\ mu = [writer |-> "", readers |-> {}]
    /\ instances = <<>>
    /\ caller = [t \in Callers |-> NoOp]

\* RegisterRunner has been called for the configured runner.
InitCoord ==
    /\ runnerConf = SingleRunner
    /\ coordRunners = runners

\* No runner configuration is followed.
InitConf ==
    /\ heap = EmptyHeap
    /\ hostRunner = [h \in Hosts |-> 0]
    /\ testConfig = 0
    /\ roleConfig = [r \in Roles |-> 0]
    /\ shown = [r \in Roles |-> <<>>]
    /\ sent = [r \in Roles |-> <<>>]
    /\ call = NoCall
    /\ ret = <<>>

InitAux ==
    /\ InitConn
    /\ InitParse
    /\ InitReg
    /\ InitCoord
    /\ InitConf

InitRun ==
    /\ i = 1
    /\ pc = "load"
    /\ j = 0
    /\ results = <<>>
    /\ result = NewTestResult(1)
    /\ retErr = <<>>
    /\ task = [r \in Roles |-> NoTask]
    /\ expired = FALSE
    /\ vi = 1
    /\ checked = {}
    /\ li = 1
    /\ launched = <<>>
    /\ settles = 0
    /\ issued = {}
    /\ deadline = NoDeadline
    /\ delays = 0

\* One scenario, run once: every combination of host fields.
Init ==
    /\ tests \in [1..1 -> {t \in TestScenario : t.Repeat <= 1 /\ t.Delay = 0}]
    /\ InitRun
    /\ InitAux

\* LoadConfig: ValidateConfig fails, App.Run returns before anything is run.
LoadConfigReject ==
    /\ pc = "load"
    /\ validateTests(tests, 1) # <<>>
    /\ pc' = "rejected"
    /\ UNCHANGED auxVars
    /\ UNCHANGED cfgVars
    /\ UNCHANGED runVars

\* LoadConfig succeeds; runners are registered, hosts connected, and
\* RunAllTests enters its loop.
LoadConfigAccept ==
    /\ pc = "load"
    /\ validateTests(tests, 1) = <<>>
    /\ pc' = "loop"
    /\ UNCHANGED auxVars
    /\ UNCHANGED cfgVars
    /\ UNCHANGED runVars

\* RunAllTests: the repeat loop of the last scenario is exhausted; results
\* is returned with a nil error.
LoopExit ==
    /\ pc = "loop"
    /\ j >= repeatOf(test)
    /\ i = Len(tests)
    /\ pc' = "finished"
    /\ UNCHANGED auxVars
    /\ UNCHANGED cfgVars
    /\ UNCHANGED runVars

\* RunAllTests: the repeat loop of a scenario is exhausted, the next
\* scenario is taken.
NextScenario ==
    /\ pc = "loop"
    /\ j >= repeatOf(test)
    /\ i < Len(tests)
    /\ i' = i + 1
    /\ j' = 0
    /\ UNCHANGED auxVars
    /\ UNCHANGED <<tests, pc, results, delays>>
    /\ UNCHANGED runVars

\* Mutant of BeginTest: the server task is started before the executables
\* are checked.
BeginTest_ServerBeforeCheck ==
    /\ pc = "loop"
    /\ j < repeatOf(test)
    /\ result' = NewTestResult(i)
    /\ task' = [r \in Roles |->
                  IF r = "server" /\ Preflight(runnerConf, test, coordRunners, held) = <<>>
                  THEN [NoTask EXCEPT !.st = "launched"] ELSE NoTask]
    /\ expired' = FALSE
    /\ vi' = 1
    /\ checked' = {}
    /\ li' = 1
    /\ launched' = IF Preflight(runnerConf, test, coordRunners, held) = <<>>
                   THEN <<[role |-> "server", settles |-> 0]>> ELSE <<>>
    /\ settles' = 0
    /\ issued' = {}
    /\ deadline' = NoDeadline
    /\ retErr' = Preflight(runnerConf, test, coordRunners, held)
    /\ pc' = IF Preflight(runnerConf, test, coordRunners, held) # <<>> THEN "returned" ELSE "validate_binaries"
    /\ UNCHANGED auxVars
    /\ UNCHANGED cfgVars

\* RunAllTests calls RunTest -> ExecuteTest; ExecuteTest up to its first
\* remote call.  Every run has its own channels and tasks: tasks of an
\* earlier run that are still going are not followed any further.
BeginTest ==
    /\ pc = "loop"
    /\ j < repeatOf(test)
    /\ result' = NewTestResult(i)
    /\ task' = [r \in Roles |-> NoTask]
    /\ expired' = FALSE
    /\ vi' = 1
    /\ checked' = {}
    /\ li' = 1
    /\ launched' = <<>>
    /\ settles' = 0
    /\ issued' = {}
    /\ deadline' = NoDeadline
    /\ retErr' = Preflight(runnerConf, test, coordRunners, held)
    /\ pc' = IF Preflight(runnerConf, test, coordRunners, held) # <<>> THEN "returned" ELSE "validate_binaries"
    /\ UNCHANGED auxVars
    /\ UNCHANGED cfgVars

\* validateRemoteBinaries: one iteration of the loop over tasks.  The check
\* command finds the executable, does not find it, or cannot be run.
ValidateBinary ==
    /\ pc = "validate_binaries"
    /\ vi <= Len(validationTasks(test))
    /\ \E o \in {"found", "missing", "error"} :
         /\ checked' = checked \cup {validationTasks(test)[vi]}
         /\ IF o = "found"
            THEN /\ vi' = vi + 1
                 /\ UNCHANGED <<pc, retErr>>
            ELSE /\ retErr' = <<"binary validation failed">> \o
                        (IF o = "missing"
                         THEN <<"binary not found or not executable">>
                         ELSE <<"failed to check binary">>)
                 /\ pc' = "returned"
                 /\ UNCHANGED vi
    /\ UNCHANGED auxVars
    /\ UNCHANGED <<tests, i, j, results, delays, result, task, expired, li,
                   launched, settles, issued, deadline>>

\* validateRemoteBinaries returned nil; testCtx is created and ExecuteTest
\* dispatches on the topology.
ValidateDone ==
    /\ pc = "validate_binaries"
    /\ vi > Len(validationTasks(test))
    /\ pc' = "launch"
    /\ UNCHANGED auxVars
    /\ UNCHANGED cfgVars
    /\ UNCHANGED runVars


\* `go func() { ... runRemoteCommand(...) ... }()` for the server or an
\* intermediate: the task is started, the executor goes to sleep.
LaunchTask ==
    /\ pc = "launch"
    /\ launchOrder(test)[li] # "client"
    /\ task' = [task EXCEPT ![launchOrder(test)[li]].st = "launched"]
    /\ launched' = Append(launched, [role |-> launchOrder(test)[li], settles |-> settles])
    /\ pc' = "settle"
    /\ UNCHANGED auxVars
    /\ UNCHANGED <<tests, i, j, results, delays, result, retErr, expired, vi,
                   checked, li, settles, issued, deadline>>

\* time.Sleep(2 * time.Second) returns.
Settle ==
    /\ pc = "settle"
    /\ settles' = settles + 1
    /\ li' = li + 1
    /\ pc' = "launch"
    /\ UNCHANGED auxVars
    /\ UNCHANGED <<tests, i, j, results, delays, result, retErr, task, expired,
                   vi, checked, launched, issued, deadline>>

\* The executor calls runRemoteCommand for the client itself and blocks.
StartClient ==
    /\ pc = "launch"
    /\ launchOrder(test)[li] = "client"
    /\ task' = [task EXCEPT !["client"].st = "launched"]
    /\ launched' = Append(launched, [role |-> "client", settles |-> settles])
    /\ pc' = "client_wait"
    /\ UNCHANGED auxVars
    /\ UNCHANGED <<tests, i, j, results, delays, result, retErr, expired, vi,
                   checked, li, settles, issued, deadline>>

collectPc(role) ==
    CASE role = "intermediate" -> "collect_intermediate"
      [] role = "intermediate1" -> "collect_intermediate1"
      [] role = "intermediate2" -> "collect_intermediate2"

\* make(chan *runner.Result, 1), make(chan error, 1): the capacity of the
\* two channels of a role task.
ChannelCap == 1

\* What the channels of role r hold: the task sends once, into one of them.
chanLen(r) == IF task[r].st = "done" THEN 1 ELSE 0

\* The executor is in the select that receives from the channels of r.
Receiving(r) ==
    \/ r = "server" /\ pc = "collect_server"
    \/ r \in {"intermediate", "intermediate1", "intermediate2"} /\ pc = collectPc(r)

\* Mutant of CanSend: the channels of the role tasks are unbuffered, a send
\* needs the executor to be receiving.
CanSend_Unbuffered(r) == r = "client" \/ Receiving(r)

\* xDone <- result, xErr <- err: the send of a role task goes through when
\* its channel has room or the executor is receiving.  The client's
\* runRemoteCommand is called by the executor itself and sends nothing.
CanSend(r) == r = "client" \/ chanLen(r) < ChannelCap \/ Receiving(r)

\* runRemoteCommand up to the select of ExecuteCommand: Validate rejects the
\* configuration, or the session cannot be created, or the command is sent.
\* The runner configuration is not part of the state, so the verdict of
\* Validate is an input of the step.  An error is the task's outcome and is
\* sent to its channel.
TaskStart(r) ==
    /\ task[r].st = "launched"
    /\ \/ /\ CanSend(r)
          /\ task' = [task EXCEPT ![r] =
                 [st |-> "done",
                  out |-> runRemoteCommand(<<"invalid configuration">>, NoOut, <<>>)]]
          /\ UNCHANGED issued
       \/ /\ CanSend(r)
          /\ task' = [task EXCEPT ![r] =
                 [st |-> "done",
                  out |-> runRemoteCommand(<<>>, ExecuteCommand("session"), <<>>)]]
          /\ UNCHANGED issued
       \/ /\ task' = [task EXCEPT ![r].st = "inflight"]
          /\ issued' = issued \cup {r}
    /\ UNCHANGED auxVars
    /\ UNCHANGED <<tests, i, pc, j, results, delays, result, retErr, expired, vi,
                   checked, li, launched, settles, deadline>>

\* The error r.ParseMetrics(runnerResult) returns for role r.
ParseMetricsError(r) == IF r \in parseFails THEN <<"no metrics found">> ELSE <<>>

\* The select of ExecuteCommand returns: the remote command completed while
\* the context was live, or the command context is done; runRemoteCommand
\* turns that into the task's single outcome, logging a warning when
\* ParseMetrics fails on the Result, and the task sends it to its channel.
TaskComplete(r) ==
    /\ task[r].st = "inflight"
    /\ CanSend(r)
    /\ \E o \in {"exit0", "exitN", "transport", "timeout"} :
         /\ (o # "timeout" => ~expired)
         /\ task' = [task EXCEPT ![r] =
                [st |-> "done",
                 out |-> runRemoteCommand(<<>>, ExecuteCommand(o), ParseMetricsError(r))]]
         /\ warnings' = IF ExecuteCommand(o).err = <<>> /\ ParseMetricsError(r) # <<>>
                        THEN warnings \cup {r} ELSE warnings
    /\ UNCHANGED <<confVars, connVars, parseFails, regVars, coordVars>>
    /\ UNCHANGED <<tests, i, pc, j, results, delays, result, retErr, expired, vi,
                   checked, li, launched, settles, issued, deadline>>

\* The deadline of testCtx passes while ExecuteTest is running a topology.
Expire ==
    /\ pc \in {"launch", "settle", "client_wait", "collect_server",
               "collect_intermediate", "collect_intermediate1",
               "collect_intermediate2", "aggregate"}
    /\ ~expired
    /\ expired' = TRUE
    /\ deadline' = [hit |-> TRUE,
                    inflight |-> {r \in Roles : task[r].st = "inflight"},
                    delivered |-> {r \in Roles : task[r].st = "done" /\ task[r].out.err = <<>>}]
    /\ UNCHANGED auxVars
    /\ UNCHANGED <<tests, i, pc, j, results, delays, result, retErr, task, vi,
                   checked, li, launched, settles, issued>>

\* Where the executor goes after the select for collectOrder(t)[k].
afterCollect(t, k) ==
    IF k < Len(collectOrder(t)) THEN collectPc(collectOrder(t)[k + 1])
    ELSE "aggregate"

collectIndex(t, role) == CHOOSE k \in 1..Len(collectOrder(t)) : collectOrder(t)[k] = role

\* Mutant of ClientReturn: a client that failed is started once more.
ClientReturn_Retry ==
    /\ pc = "client_wait"
    /\ task["client"].st = "done"
    /\ IF task["client"].out.err # <<>>
       THEN /\ task' = [task EXCEPT !["client"] = [NoTask EXCEPT !.st = "launched"]]
            /\ UNCHANGED <<result, retErr, expired, pc>>
       ELSE /\ result' = [result EXCEPT !.ClientResult = task["client"].out.result]
            /\ pc' = "collect_server"
            /\ UNCHANGED <<retErr, expired, task>>
    /\ UNCHANGED auxVars
    /\ UNCHANGED <<tests, i, j, results, delays, vi, checked, li, launched,
                   settles, issued, deadline>>

\* The client's runRemoteCommand returned.  An error ends the topology
\* function and ExecuteTest (the deferred cancel runs); otherwise the
\* client Result is stored and collection starts.
ClientReturn ==
    /\ pc = "client_wait"
    /\ task["client"].st = "done"
    /\ IF task["client"].out.err # <<>>
       THEN /\ retErr' = <<"client execution failed">> \o task["client"].out.err
            /\ expired' = TRUE
            /\ pc' = "returned"
            /\ UNCHANGED result
       ELSE /\ result' = [result EXCEPT !.ClientResult = task["client"].out.result]
            /\ pc' = "collect_server"
            /\ UNCHANGED <<retErr, expired>>
    /\ UNCHANGED auxVars
    /\ UNCHANGED <<tests, i, j, results, delays, task, vi, checked, li, launched,
                   settles, issued, deadline>>

\* select { case <-serverDone; case <-serverErr; case <-ctx.Done() }
CollectServer ==
    /\ pc = "collect_server"
    /\ \/ /\ task["server"].st = "done"
          /\ task["server"].out.err = <<>>
          /\ result' = [result EXCEPT !.ServerResult = task["server"].out.result]
       \/ /\ task["server"].st = "done"
          /\ task["server"].out.err # <<>>
          /\ result' = [result EXCEPT !.Error =
                            <<"server execution failed">> \o task["server"].out.err]
       \/ /\ expired
          /\ result' = [result EXCEPT !.Error = <<"test timed out">>]
    /\ pc' = afterCollect(test, 0)
    /\ UNCHANGED auxVars
    /\ UNCHANGED <<tests, i, j, results, delays, retErr, task, expired, vi,
                   checked, li, launched, settles, issued, deadline>>

intermediateFailed(role) ==
    CASE role = "intermediate" -> "intermediate execution failed"
      [] role = "intermediate1" -> "intermediate1 execution failed"
      [] role = "intermediate2" -> "intermediate2 execution failed"

\* Mutant of CollectIntermediate: the error of an intermediate is stored
\* whatever result.Error holds.
CollectIntermediate_Overwrites(role) ==
    /\ pc = collectPc(role)
    /\ task[role].st = "done"
    /\ result' =
         IF task[role].out.err = <<>>
         THEN [result EXCEPT ![resultField(role)] = task[role].out.result]
         ELSE [result EXCEPT !.Error = <<intermediateFailed(role)>> \o task[role].out.err]
    /\ pc' = afterCollect(test, collectIndex(test, role))
    /\ UNCHANGED auxVars
    /\ UNCHANGED <<tests, i, j, results, delays, retErr, task, expired, vi,
                   checked, li, launched, settles, issued, deadline>>

\* select { case <-xDone; case <-xErr; ... }: the intermediate's outcome is
\* in its channel.
CollectIntermediate(role) ==
    /\ pc = collectPc(role)
    /\ task[role].st = "done"
    /\ result' =
         IF task[role].out.err = <<>>
         THEN [result EXCEPT ![resultField(role)] = task[role].out.result]
         ELSE IF result.Error = <<>>
         THEN [result EXCEPT !.Error = <<intermediateFailed(role)>> \o task[role].out.err]
         ELSE result
    /\ pc' = afterCollect(test, collectIndex(test, role))
    /\ UNCHANGED auxVars
    /\ UNCHANGED <<tests, i, j, results, delays, retErr, task, expired, vi,
                   checked, li, launched, settles, issued, deadline>>

\* Mutant of GraceTimeout: an intermediate that is late fails the scenario.
GraceTimeout_FailsTest(role) ==
    /\ pc = collectPc(role)
    /\ task[role].st # "done"
    /\ result' = IF result.Error = <<>>
                 THEN [result EXCEPT !.Error = <<intermediateFailed(role), "timed out">>]
                 ELSE result
    /\ pc' = afterCollect(test, collectIndex(test, role))
    /\ UNCHANGED auxVars
    /\ UNCHANGED <<tests, i, j, results, delays, retErr, task, expired,
                   vi, checked, li, launched, settles, issued, deadline>>

\* ... case <-time.After(5 * time.Second): only a warning is logged.
GraceTimeout(role) ==
    /\ pc = collectPc(role)
    /\ task[role].st # "done"
    /\ pc' = afterCollect(test, collectIndex(test, role))
    /\ UNCHANGED auxVars
    /\ UNCHANGED <<tests, i, j, results, delays, result, retErr, task, expired,
                   vi, checked, li, launched, settles, issued, deadline>>

\* ExecuteTest computes result.Success and returns (result, nil); the
\* deferred cancel of testCtx runs.  (collectEnvironmentInfo, which runs
\* before this when enabled, only fills result.EnvironmentInfo.)
Aggregate ==
    /\ pc = "aggregate"
    /\ result' = [result EXCEPT !.Success = aggregateSuccess(result)]
    /\ retErr' = <<>>
    /\ expired' = TRUE
    /\ pc' = "returned"
    /\ UNCHANGED auxVars
    /\ UNCHANGED <<tests, i, j, results, delays, task, vi, checked, li, launched,
                   settles, issued, deadline>>

\* The TestResult RunAllTests appends for what RunTest returned.
recorded(name, res, err) ==
    IF err # <<>> THEN [NewTestResult(name) EXCEPT !.Success = FALSE, !.Error = err]
    ELSE res

\* Mutant of Record: a repeat that returned an error leaves no TestResult.
Record_DropsErrored ==
    /\ pc = "returned"
    /\ results' = IF retErr # <<>> THEN results
                  ELSE Append(results, recorded(i, result, retErr))
    /\ j' = j + 1
    /\ pc' = IF j < repeatOf(test) - 1 /\ test.Delay > 0 THEN "delay" ELSE "loop"
    /\ UNCHANGED auxVars
    /\ UNCHANGED <<tests, i, delays>>
    /\ UNCHANGED runVars

\* RunAllTests: results = append(results, result), then the delay test.
Record ==
    /\ pc = "returned"
    /\ results' = Append(results, recorded(i, result, retErr))
    /\ j' = j + 1
    /\ pc' = IF j < repeatOf(test) - 1 /\ test.Delay > 0 THEN "delay" ELSE "loop"
    /\ UNCHANGED auxVars
    /\ UNCHANGED <<tests, i, delays>>
    /\ UNCHANGED runVars

\* time.Sleep(test.Delay) returns.
Delay ==
    /\ pc = "delay"
    /\ delays' = delays + 1
    /\ pc' = "loop"
    /\ UNCHANGED auxVars
    /\ UNCHANGED <<tests, i, j, results>>
    /\ UNCHANGED runVars

Next ==
    \/ LoadConfigReject
    \/ LoadConfigAccept
    \/ BeginTest
    \/ ValidateBinary
    \/ ValidateDone
    \/ LaunchTask
    \/ Settle
    \/ StartClient
    \/ \E r \in Roles : TaskStart(r)
    \/ \E r \in Roles : TaskComplete(r)
    \/ Expire
    \/ ClientReturn
    \/ CollectServer
    \/ \E r \in {"intermediate", "intermediate1", "intermediate2"} : CollectIntermediate(r)
    \/ \E r \in {"intermediate", "intermediate1", "intermediate2"} : GraceTimeout(r)
    \/ Aggregate
    \/ Record
    \/ LoopExit

Spec == Init /\ [][Next]_vars


\* ------------------------------------------ the repeat loop, tasks and all
\* RunAllTests over one scenario with its repeat loop and inter-repeat
\* delay, every run of ExecuteTest followed task by task.  Two-node
\* scenarios with every repeat count, three-node scenarios run at most twice.
InitRepeat ==
    /\ tests \in [1..1 -> {t \in TestScenario :
                              /\ t.Client = "h1" /\ t.Server = "h2"
                              /\ t.Intermediate \in {"", "h3"}
                              /\ t.Intermediate1 = "" /\ t.Intermediate2 = ""
                              /\ (t.Intermediate # "" => t.Repeat <= 2)}]
    /\ InitRun
    /\ InitAux

NextRepeated ==
    \/ Next
    \/ Delay

SpecRepeat == InitRepeat /\ [][NextRepeated]_vars

\* ----------------------------- scenarios the coordinator cannot carry out
\* Two scenarios run once each.  The first is of any topology and may name
\* a host that is not configured; the second is a two-node scenario.  The
\* coordinator may lack the runner, and Coordinator.sshClients may lack a
\* host: ConnectHosts writes the map without a lock of its own, so a write
\* can be lost although nil was returned.
PreflightScenarios ==
    {t \in TestScenario :
        /\ t.Client = "h1" /\ t.Server \in {"", "h2"}
        /\ t.Intermediate \in {"", "h3"}
        /\ t.Intermediate1 \in {"", "h3", "h5"}
        /\ t.Intermediate2 \in {"", "h4"}
        /\ t.Repeat = 1 /\ t.Delay = 0}

LaterScenarios ==
    {t \in TestScenario :
        /\ t.Client = "h1" /\ t.Server = "h2"
        /\ t.Intermediate = "" /\ t.Intermediate1 = "" /\ t.Intermediate2 = ""
        /\ t.Repeat = 1 /\ t.Delay = 0}

InitPreflight ==
    /\ tests \in {ts \in [1..2 -> TestScenario] :
                     ts[1] \in PreflightScenarios /\ ts[2] \in LaterScenarios}
    /\ InitRun
    /\ app = "connected"
    /\ gor = [h \in Hosts |-> "written"]
    /\ conn = [h \in Hosts |-> "open"]
    /\ held \in {sshClients, sshClients \ {"h3"}, sshClients \ {"h4"},
                 sshClients \ {"h2"}}
    /\ errCh = {}
    /\ writing = {}
    /\ raced = {}
    /\ connectErr = <<>>
    /\ closeCalls = [h \in Hosts |-> 0]
    /\ closeLog = {}
    /\ cleanups = 0
    /\ InitParse
    /\ InitReg
    /\ runnerConf = SingleRunner
    /\ coordRunners \in {{}, runners}
    /\ InitConf

NextPreflight ==
    \/ Next
    \/ NextScenario

SpecPreflight == InitPreflight /\ [][NextPreflight]_vars

\* ------------------------------------------- role tasks run to their end
\* One scenario of each topology, run once, with the role tasks scheduled
\* fairly: a goroutine that can take its next step takes it, and
\* ExecuteCommand returns once its context is done.
InitFair ==
    /\ tests \in [1..1 -> {t \in TestScenario :
                              /\ t.Client = "h1" /\ t.Server \in {"", "h2"}
                              /\ t.Intermediate \in {"", "h3"}
                              /\ t.Intermediate1 \in {"", "h3"}
                              /\ t.Intermediate2 \in {"", "h4"}
                              /\ t.Repeat = 1 /\ t.Delay = 0}]
    /\ InitRun
    /\ InitAux

SpecFair ==
    /\ InitFair
    /\ [][Next]_vars
    /\ \A r \in Roles : WF_vars(TaskStart(r)) /\ WF_vars(TaskComplete(r))

\* ------------------------------------------------ registering the runners
\* App.Run from LoadConfig to RunAllTests for one scenario run once, under
\* every runner configuration: one runner for all roles, per-role runners,
\* both or none.

\* validateRunners: the error, <<>> for nil.
validateRunners(c) ==
    IF c.Runner = "" /\ c.Runners = <<>>
    THEN <<"either 'runner' or 'runners' configuration is required">>
    ELSE IF c.Runners # <<>>
            /\ c.Runners[1].Client = "" /\ c.Runners[1].Server = ""
            /\ c.Runners[1].Intermediate = ""
    THEN <<"when using 'runners', at least one of client, server, or intermediate must be specified">>
    ELSE <<>>

\* The roles registerRunners collects runners for in one scenario.
registeredRoles(t) ==
    {"client", "server"} \cup (IF t.Intermediate # "" THEN {"intermediate"} ELSE {})

\* The keys of requiredRunners when registerRunners has collected them.
requiredRunners(c, ts) ==
    LET found == {GetRunnerForRole(c, role) :
                     role \in UNION {registeredRoles(ts[k]) : k \in 1..Len(ts)}} \ {""}
    IN IF found = {} /\ c.Runner # "" THEN {c.Runner} ELSE found

\* registerRunners: the error it returns, <<>> for nil.  reg holds the names
\* runner.CreateWithPath knows.
registerRunners(c, ts, reg) ==
    IF requiredRunners(c, ts) = {} THEN <<"no runners specified in configuration">>
    ELSE IF requiredRunners(c, ts) \ reg # {} THEN <<"unsupported runner">>
    ELSE <<>>

RunnerNamesByRole ==
    [Client : {"", "iperf3"}, Server : {"", "iperf3"},
     Intermediate : {"", "testpmd", "nosuch"}]

RunnerConfigs ==
    [Runner : {"", "iperf3"}, Runners : {<<>>} \cup {<<rr>> : rr \in RunnerNamesByRole}]

InitRegister ==
    /\ tests \in [1..1 -> {t \in TestScenario :
                              /\ t.Client = "h1" /\ t.Server \in {"", "h2"}
                              /\ t.Intermediate \in {"", "h3"}
                              /\ t.Intermediate1 \in {"", "h3"}
                              /\ t.Intermediate2 \in {"", "h4"}
                              /\ t.Repeat = 1 /\ t.Delay = 0}]
    /\ InitRun
    /\ InitConn
    /\ InitParse
    /\ InitReg
    /\ runnerConf \in RunnerConfigs
    /\ coordRunners = {}
    /\ InitConf

\* LoadConfig: ValidateConfig accepts the configuration or not.
LoadConfig ==
    /\ pc = "load"
    /\ pc' = IF validateRunners(runnerConf) # <<>> \/ validateTests(tests, 1) # <<>>
             THEN "rejected" ELSE "register"
    /\ UNCHANGED auxVars
    /\ UNCHANGED cfgVars
    /\ UNCHANGED runVars

\* App.registerRunners: an error ends App.Run; otherwise every collected
\* runner is created and registered with the coordinator, the hosts are
\* connected and RunAllTests enters its loop.
RegisterRunners ==
    /\ pc = "register"
    /\ IF registerRunners(runnerConf, tests, DOMAIN registry) # <<>>
       THEN /\ pc' = "register_failed"
            /\ coordRunners' \in SUBSET (requiredRunners(runnerConf, tests)
                                            \cap DOMAIN registry)
       ELSE /\ pc' = "loop"
            /\ coordRunners' = requiredRunners(runnerConf, tests)
    /\ UNCHANGED <<confVars, connVars, parseVars, regVars, runnerConf>>
    /\ UNCHANGED cfgVars
    /\ UNCHANGED runVars

NextRegister ==
    \/ LoadConfig
    \/ RegisterRunners
    \/ BeginTest
    \/ ValidateBinary
    \/ ValidateDone
    \/ LaunchTask
    \/ Settle
    \/ StartClient
    \/ \E r \in Roles : TaskStart(r)
    \/ \E r \in Roles : TaskComplete(r)
    \/ Expire
    \/ ClientReturn
    \/ CollectServer
    \/ \E r \in {"intermediate", "intermediate1", "intermediate2"} : CollectIntermediate(r)
    \/ \E r \in {"intermediate", "intermediate1", "intermediate2"} : GraceTimeout(r)
    \/ Aggregate
    \/ Record
    \/ LoopExit

SpecRegister == InitRegister /\ [][NextRegister]_vars

\* ------------------------------------------- runners whose parsing fails
\* One two-node or three-node scenario, run once, with runners whose
\* ParseMetrics returns an error for any set of the roles.
InitParseFail ==
    /\ tests \in [1..1 -> {t \in TestScenario :
                              /\ t.Client = "h1" /\ t.Server = "h2"
                              /\ t.Intermediate \in {"", "h3"}
                              /\ t.Intermediate1 = "" /\ t.Intermediate2 = ""
                              /\ t.Repeat \in {-1, 1} /\ t.Delay = 0}]
    /\ InitRun
    /\ InitConn
    /\ InitConf
    /\ parseFails \in SUBSET {"client", "server", "intermediate"}
    /\ warnings = {}
    /\ InitReg
    /\ InitCoord

SpecParseFail == InitParseFail /\ [][Next]_vars

\* ----------------------------------------------- RunAllTests on its own
\* The loop of RunAllTests over several scenarios and repeats.  RunTest is
\* taken as one step here: RunAllTests depends on it only through the pair
\* it returns.

\* Pairs (result, err) RunTest can hand back: a passed TestResult, a failed
\* TestResult, and an error with no TestResult.
RunTestReturns(name) ==
    { [result |-> [NewTestResult(name) EXCEPT
                      !.ClientResult = runRemoteCommand(<<>>, ExecuteCommand("exit0"), <<>>).result,
                      !.ServerResult = runRemoteCommand(<<>>, ExecuteCommand("exit0"), <<>>).result,
                      !.Success = TRUE],
       err |-> <<>>],
      [result |-> [NewTestResult(name) EXCEPT
                      !.ClientResult = runRemoteCommand(<<>>, ExecuteCommand("exit0"), <<>>).result,
                      !.Error = <<"test timed out">>],
       err |-> <<>>],
      [result |-> NewTestResult(name),
       err |-> <<"client execution failed">> \o
               runRemoteCommand(<<>>, ExecuteCommand("timeout"), <<>>).err] }

\* result, err := c.RunTest(ctx, &test)
RunTest ==
    /\ pc = "loop"
    /\ j < repeatOf(test)
    /\ \E out \in RunTestReturns(i) :
         /\ result' = out.result
         /\ retErr' = out.err
    /\ pc' = "returned"
    /\ UNCHANGED auxVars
    /\ UNCHANGED cfgVars
    /\ UNCHANGED <<task, expired, vi, checked, li, launched, settles, issued, deadline>>

\* One to MaxTests two-node scenarios with every repeat count and delay.
InitRunAll ==
    /\ tests \in UNION { [1..n -> {t \in TestScenario :
                                      /\ t.Client = "h1" /\ t.Server = "h2"
                                      /\ t.Intermediate = "" /\ t.Intermediate1 = ""
                                      /\ t.Intermediate2 = ""}]
                         : n \in 1..MaxTests }
    /\ InitRun
    /\ InitAux

NextRunAll ==
    \/ LoadConfigReject
    \/ LoadConfigAccept
    \/ RunTest
    \/ Record
    \/ Delay
    \/ NextScenario
    \/ LoopExit

SpecRun == InitRunAll /\ [][NextRunAll]_vars


\* --------------------------------------- the configuration functions alone
\* SpecCalls follows one call of MergeRunnerConfig, GetEffectiveArgs,
\* GetEffectiveEnv, or two successive calls of BuildCommand, on
\* configurations drawn from the families below.  Durations are whole
\* seconds.

\* The argument keys a runner's BuildCommand is given in the model.
ArgKeys(name) ==
    IF name = "iperf3" THEN {"parallel_streams", "interval"} ELSE {"size", "iterations"}

\* The maps over some of the keys, and such a map or no map at all.
Maps(keys, vals) == UNION {[d -> vals] : d \in SUBSET keys}
OptMaps(keys, vals) == {<<>>} \cup {<<m>> : m \in Maps(keys, vals)}

\* runner.Config{} as a value.
ZeroValue ==
    [Duration |-> 0, Args |-> <<>>, Env |-> <<>>, ServerArgs |-> <<>>,
     ClientArgs |-> <<>>, ServerEnv |-> <<>>, ClientEnv |-> <<>>, Role |-> "",
     Host |-> "", TargetHost |-> "", Port |-> 0]

ArgFields == {"Args", "ServerArgs", "ClientArgs"}
EnvFields == {"Env", "ServerEnv", "ClientEnv"}
EnvKeys == {EnvKeyOrder[k] : k \in DOMAIN EnvKeyOrder}

\* Host-level runner configurations: every combination of the scalar
\* fields, every map in each one of the map fields, and one with all set.
HostLevelInputs ==
    {<<>>}
    \cup {<<[ZeroValue EXCEPT !.Duration = d, !.Port = p, !.Host = a,
                              !.TargetHost = t, !.Role = r]>> :
            d \in {0, 10}, p \in {0, 5201}, a \in {"", "10.0.0.7"},
            t \in {"", "192.168.0.7"}, r \in {"", "server"}}
    \cup {<<[ZeroValue EXCEPT ![f] = m]>> :
            f \in ArgFields, m \in OptMaps(ArgKeys("iperf3"), {4})}
    \cup {<<[ZeroValue EXCEPT ![f] = m]>> :
            f \in EnvFields, m \in OptMaps(EnvKeys, {"0"})}
    \cup {<<[Duration |-> 10, Args |-> <<[parallel_streams |-> 4]>>,
             Env |-> <<[LD_LIBRARY_PATH |-> "0"]>>,
             ServerArgs |-> <<[interval |-> 4]>>, ClientArgs |-> <<>>,
             ServerEnv |-> <<>>, ClientEnv |-> <<[CUDA_VISIBLE_DEVICES |-> "0"]>>,
             Role |-> "server", Host |-> "10.0.0.7", TargetHost |-> "",
             Port |-> 5201]>>}

\* Test-level runner configurations, with values unlike the host-level ones
\* and with negative numbers, which the configuration loader accepts.
TestLevelInputs ==
    {<<>>}
    \cup {<<[ZeroValue EXCEPT !.Duration = d, !.Port = p, !.Host = a,
                              !.TargetHost = t, !.Role = r]>> :
            d \in {-5, 0, 20}, p \in {-1, 0, 5202}, a \in {"", "10.0.0.8"},
            t \in {"", "192.168.0.8"}, r \in {"", "client"}}
    \cup {<<[ZeroValue EXCEPT ![f] = m]>> :
            f \in ArgFields, m \in OptMaps(ArgKeys("iperf3"), {8})}
    \cup {<<[ZeroValue EXCEPT ![f] = m]>> :
            f \in EnvFields, m \in OptMaps(EnvKeys, {"/opt/my libs"})}
    \cup {<<[Duration |-> 20, Args |-> <<[parallel_streams |-> 8, interval |-> 8]>>,
             Env |-> <<[LD_LIBRARY_PATH |-> "/opt/my libs"]>>,
             ServerArgs |-> <<>>, ClientArgs |-> <<[interval |-> 8]>>,
             ServerEnv |-> <<[CUDA_VISIBLE_DEVICES |-> "1"]>>, ClientEnv |-> <<>>,
             Role |-> "", Host |-> "", TargetHost |-> "192.168.0.8",
             Port |-> 0]>>}

\* The roles a Config is resolved for.
RoleNames == {"", "server", "client", "intermediate", "intermediate1"}

\* Configurations whose general and overlay argument maps take every value.
OverlayArgInputs ==
    {[ZeroValue EXCEPT !.Role = r, !.Args = g, !.ServerArgs = s, !.ClientArgs = c] :
        r \in RoleNames, g \in OptMaps(ArgKeys("iperf3"), {4, 8}),
        s \in OptMaps(ArgKeys("iperf3"), {4, 8}),
        c \in OptMaps(ArgKeys("iperf3"), {4, 8})}

\* The same for the environment maps.
OverlayEnvInputs ==
    {[ZeroValue EXCEPT !.Role = r, !.Env = g, !.ServerEnv = s, !.ClientEnv = c] :
        r \in RoleNames, g \in OptMaps(EnvKeys, {"0", "/opt/my libs"}),
        s \in OptMaps(EnvKeys, {"0", "/opt/my libs"}),
        c \in OptMaps(EnvKeys, {"0", "/opt/my libs"})}

\* The runners whose BuildCommand is called.
RunnerNames == {"iperf3", "ib_send_bw"}

\* Configurations a BuildCommand is called with.
BuildInputs(name) ==
    {[ZeroValue EXCEPT !.Role = r, !.Port = p, !.Duration = d, !.TargetHost = t,
                       !.Host = a, !.Args = g, !.ClientArgs = c, !.Env = e] :
        r \in {"server", "client", "intermediate"}, p \in {0, 5201}, d \in {0, 10},
        t \in {"", "192.168.0.7"}, a \in {"", "10.0.0.7"},
        g \in OptMaps(ArgKeys(name), {4}),
        c \in {<<>>, <<[k \in {CHOOSE x \in ArgKeys(name) : TRUE} |-> 8]>>},
        e \in {<<>>, <<[k \in EnvKeys |-> "0"]>>}}

\* The argument maps a testpmd configuration is validated with.
TestpmdArgMaps ==
    LET with(S, k, V) == S \cup {Override(m, [x \in {k} |-> v]) : m \in S, v \in V}
    IN  with(with(with(with({<<>>}, "cores", {-1, 4}),
                       "memory_channels", {0, 4, 9}),
                  "ports", PortSpecs),
             "forward_mode", {"io", "bogus"})

\* Configurations Validate is called with: every role name, with and
\* without addresses, with ports and arguments in and out of range.
ValidateInputs(name) ==
    IF name = "testpmd"
    THEN {[ZeroValue EXCEPT !.Role = r, !.TargetHost = t, !.Host = a,
                            !.Args = IF m = <<>> THEN <<>> ELSE <<m>>] :
            r \in RoleNames, t \in {"", "192.168.0.7"}, a \in {"", "10.0.0.7"},
            m \in TestpmdArgMaps}
    ELSE {[ZeroValue EXCEPT !.Role = r, !.TargetHost = t, !.Host = a, !.Port = p,
                            !.Args = g] :
            r \in RoleNames, t \in {"", "192.168.0.7"}, a \in {"", "10.0.0.7"},
            p \in {-1, 0, 5201, 65536},
            g \in OptMaps({"parallel_streams"}, {0, 4})}

\* A two-node scenario, run once.
TwoNodeScenario ==
    [Client |-> "h1", Server |-> "h2", Intermediate |-> "", Intermediate1 |-> "",
     Intermediate2 |-> "", Repeat |-> 0, Delay |-> 0]

\* Lines of iperf3 output: text result lines with and without a retransmit
\* column, in both units, lines that hold a unit but no readable value, and
\* lines of the -J form.
Iperf3Lines ==
    {<<"sec", "934", "Mbits/sec", "15", "KBytes">>,
     <<"sec", "932", "Mbits/sec", "receiver">>,
     <<"sec", "1.5", "Gbits/sec", "receiver">>,
     <<"Interval", "Transfer", "Bitrate">>,
     <<"Mbits/sec", "934">>,
     <<"fast", "Mbits/sec">>,
     <<"\"start\":", "\"end\":">>,
     <<"\"bits_per_second\":", "934000000">>,
     <<"\"bits_per_second\":", "987000000">>,
     <<"\"retransmits\":", "15">>}

\* Lines of ib_send_bw output: the table header, two data lines, two single
\* result lines and an error line.
IbSendBwLines ==
    {<<"#bytes", "#iterations", "BW", "peak[MB/sec]", "BW", "average[MB/sec]",
       "MsgRate[Mpps]">>,
     <<"65536", "1000", "11000.5", "10950.2", "0.17">>,
     <<"65536", "1000", "934", "932", "0.17">>,
     <<"1.5", "Gb/sec">>,
     <<"934", "MB/sec", "15", "Kpps">>,
     <<"Error:", "connection", "failed">>}

OutputsOf(Lines) ==
    UNION {[1..n -> Lines] : n \in 0..MaxLines}

Outputs(name) ==
    IF name = "iperf3" THEN OutputsOf(Iperf3Lines) ELSE OutputsOf(IbSendBwLines)

\* Argument maps of ib_send_bw with a value of every type: an integer, a
\* boolean that is true or false, a float with one and with three
\* decimals, a string, and a key BuildCommand does not know.
TypedArgMaps ==
    LET with(S, k, V) == S \cup {Override(m, [x \in {k} |-> v]) : m \in S, v \in V}
    IN  with(with(with(with(with({<<>>},
            "iterations", {1000}),
            "use_event", {TRUE, FALSE}),
            "cpu_freq", {[m |-> 24, e |-> -1], [m |-> 2456, e |-> -3]}),
            "connection", {"RC"}),
            "verbose", {TRUE})

TypedBuildInputs ==
    {[ZeroValue EXCEPT !.Role = r, !.TargetHost = t, !.Host = a, !.Args = <<g>>] :
        r \in {"server", "client"}, t \in {"", "192.168.0.7"},
        a \in {"", "10.0.0.7"}, g \in TypedArgMaps \ {<<>>}}

InitCalls ==
    /\ tests = <<TwoNodeScenario>>
    /\ InitRun
    /\ InitConn
    /\ InitParse
    /\ InitReg
    /\ InitCoord
    /\ hostRunner = [h \in Hosts |-> 0]
    /\ testConfig = 0
    /\ roleConfig = [r \in Roles |-> 0]
    /\ shown = [r \in Roles |-> <<>>]
    /\ sent = [r \in Roles |-> <<>>]
    /\ ret = <<>>
    /\ \/ \E hv \in HostLevelInputs, tv \in TestLevelInputs :
            LET s1 == Store(EmptyHeap, hv)
                s2 == Store(s1.h, tv)
            IN  /\ heap = s2.h
                /\ call = [fn |-> "MergeRunnerConfig", runner |-> "",
                           config |-> s1.a, testConfig |-> s2.a]
       \/ \E v \in OverlayArgInputs :
            /\ heap = Store(EmptyHeap, <<v>>).h
            /\ call = [fn |-> "GetEffectiveArgs", runner |-> "", config |-> 1,
                       testConfig |-> 0]
       \/ \E v \in OverlayEnvInputs :
            /\ heap = Store(EmptyHeap, <<v>>).h
            /\ call = [fn |-> "GetEffectiveEnv", runner |-> "", config |-> 1,
                       testConfig |-> 0]
       \/ \E name \in RunnerNames : \E v \in BuildInputs(name) :
            /\ heap = Store(EmptyHeap, <<v>>).h
            /\ call = [fn |-> "BuildCommand", runner |-> name, config |-> 1,
                       testConfig |-> 0]
       \/ \E v \in TypedBuildInputs :
            /\ heap = Store(EmptyHeap, <<v>>).h
            /\ call = [fn |-> "BuildCommand", runner |-> "ib_send_bw",
                       config |-> 1, testConfig |-> 0]
       \/ \E name \in RegisteredRunners : \E v \in ValidateInputs(name) :
            /\ heap = Store(EmptyHeap, <<v>>).h
            /\ call = [fn |-> "Validate", runner |-> name, config |-> 1,
                       testConfig |-> 0]
       \/ \E name \in RunnerNames : \E out \in Outputs(name) :
            /\ heap = EmptyHeap
            /\ call = [fn |-> "ParseMetrics", runner |-> name, config |-> 0,
                       testConfig |-> 0, output |-> out]

\* merged := c.MergeRunnerConfig(hostConfig, testConfig)
CallMergeRunnerConfig ==
    /\ call.fn = "MergeRunnerConfig"
    /\ ret = <<>>
    /\ LET m == MergeRunnerConfig(heap, call.config, call.testConfig)
       IN  /\ heap' = m.h
           /\ ret' = <<m.a>>
    /\ UNCHANGED <<cfgVars, runVars, pc>>
    /\ UNCHANGED <<hostRunner, testConfig, roleConfig, shown, sent, call>>
    /\ UNCHANGED <<connVars, parseVars, regVars, coordVars>>

\* effective := config.GetEffectiveArgs()
CallGetEffectiveArgs ==
    /\ call.fn = "GetEffectiveArgs"
    /\ ret = <<>>
    /\ ret' = <<GetEffectiveArgs(heap, call.config)>>
    /\ UNCHANGED <<cfgVars, runVars, pc>>
    /\ UNCHANGED <<heap, hostRunner, testConfig, roleConfig, shown, sent, call>>
    /\ UNCHANGED <<connVars, parseVars, regVars, coordVars>>

\* effective := config.GetEffectiveEnv()
CallGetEffectiveEnv ==
    /\ call.fn = "GetEffectiveEnv"
    /\ ret = <<>>
    /\ ret' = <<GetEffectiveEnv(heap, call.config)>>
    /\ UNCHANGED <<cfgVars, runVars, pc>>
    /\ UNCHANGED <<heap, hostRunner, testConfig, roleConfig, shown, sent, call>>
    /\ UNCHANGED <<connVars, parseVars, regVars, coordVars>>

\* command := r.BuildCommand(*config), called a first and a second time on
\* the same configuration.
CallBuildCommand ==
    /\ call.fn = "BuildCommand"
    /\ Len(ret) < 2
    /\ \E order \in RangeOrders(GetEffectiveArgs(heap, call.config)) :
         ret' = Append(ret, BuildCommand(call.runner, heap, call.config, order))
    /\ UNCHANGED <<cfgVars, runVars, pc>>
    /\ UNCHANGED <<heap, hostRunner, testConfig, roleConfig, shown, sent, call>>
    /\ UNCHANGED <<connVars, parseVars, regVars, coordVars>>

\* err := r.Validate(*config)
CallValidate ==
    /\ call.fn = "Validate"
    /\ ret = <<>>
    /\ ret' = <<Validate(call.runner, heap, call.config)>>
    /\ UNCHANGED <<cfgVars, runVars, pc>>
    /\ UNCHANGED <<heap, hostRunner, testConfig, roleConfig, shown, sent, call>>
    /\ UNCHANGED <<connVars, parseVars, regVars, coordVars>>

\* err := runner.ParseMetrics(result), result.Output being the captured text
CallParseMetrics ==
    /\ call.fn = "ParseMetrics"
    /\ ret = <<>>
    /\ ret' = <<ParseMetrics(call.runner, call.output)>>
    /\ UNCHANGED <<cfgVars, runVars, pc>>
    /\ UNCHANGED <<heap, hostRunner, testConfig, roleConfig, shown, sent, call>>
    /\ UNCHANGED <<connVars, parseVars, regVars, coordVars>>

NextCalls ==
    \/ CallMergeRunnerConfig
    \/ CallGetEffectiveArgs
    \/ CallGetEffectiveEnv
    \/ CallBuildCommand
    \/ CallValidate
    \/ CallParseMetrics

SpecCalls == InitCalls /\ [][NextCalls]_vars


\* ------------------------------------ ExecuteTest's runner configurations
\* SpecPrepare follows the configuration objects through ExecuteTest: the
\* per-role merge and role/address assignment, the commands built for the
\* TestResult, and each role's runRemoteCommand up to the command it sends,
\* over the repeats of one scenario.  The role tasks are taken in any order
\* and their remote outcome is not followed.

\* HostConfig.SSH.Host of each configured host.
SSHHost == [h1 |-> "10.0.0.1", h2 |-> "10.0.0.2", h3 |-> "10.0.0.3", h4 |-> "10.0.0.4"]

\* config.Field = v through the pointer a
SetField(h, a, f, v) == [h EXCEPT !.cfgs[a][f] = v]

\* x.Host = next; if x.TargetHost == "" { x.TargetHost = next }
connectTo(h, a, next) ==
    IF h.cfgs[a].TargetHost = ""
    THEN SetField(SetField(h, a, "Host", next), a, "TargetHost", next)
    ELSE SetField(h, a, "Host", next)

\* xConfig := MergeRunnerConfig(xHost.Runner, test.Config); xConfig.Role = role
mergeForRole(h, hostConfig, tc, role) ==
    [h |-> SetField(MergeRunnerConfig(h, hostConfig, tc).h,
                    MergeRunnerConfig(h, hostConfig, tc).a, "Role", role),
     a |-> MergeRunnerConfig(h, hostConfig, tc).a]

\* The role a participant's Config is given.
configRole(role) ==
    IF role \in {"intermediate1", "intermediate2"} THEN "intermediate" ELSE role

\* The host name the scenario gives a role.
hostOf(t, role) ==
    CASE role = "client" -> t.Client
      [] role = "server" -> t.Server
      [] role = "intermediate" -> t.Intermediate
      [] role = "intermediate1" -> t.Intermediate1
      [] role = "intermediate2" -> t.Intermediate2

\* The roles ExecuteTest prepares a Config for, in the order it merges them.
mergeOrder(t) ==
    <<"server", "client">> \o
    (IF HasFourNodeTopology(t) THEN <<"intermediate1", "intermediate2">>
     ELSE IF HasIntermediateNode(t) THEN <<"intermediate">>
     ELSE <<>>)

\* connections with the client connected to the server in every topology.
connections_ClientToServer(t) ==
    IF HasFourNodeTopology(t)
    THEN <<<<"intermediate2", "server">>, <<"intermediate1", "intermediate2">>,
           <<"client", "server">>>>
    ELSE IF HasIntermediateNode(t)
    THEN <<<<"intermediate", "server">>, <<"client", "server">>>>
    ELSE <<<<"client", "server">>>>

\* The role each role's command connects to, in the order the addresses are
\* assigned; the server connects to nobody.
connections(t) ==
    IF HasFourNodeTopology(t)
    THEN <<<<"intermediate2", "server">>, <<"intermediate1", "intermediate2">>,
           <<"client", "intermediate1">>>>
    ELSE IF HasIntermediateNode(t)
    THEN <<<<"intermediate", "server">>, <<"client", "intermediate">>>>
    ELSE <<<<"client", "server">>>>

\* The merges of "Prepare runner configurations", from the k-th on: the
\* heap and the address of each role's Config.
RECURSIVE mergeAll(_, _, _, _, _, _)
mergeAll(h, cfg, t, hr, tc, k) ==
    IF k > Len(mergeOrder(t)) THEN [h |-> h, cfg |-> cfg]
    ELSE LET role == mergeOrder(t)[k]
             m == mergeForRole(h, hr[hostOf(t, role)], tc, configRole(role))
         IN  mergeAll(m.h, [cfg EXCEPT ![role] = m.a], t, hr, tc, k + 1)

\* The address assignments of the topology branch, from the k-th on.
RECURSIVE connectAll(_, _, _, _)
connectAll(h, cfg, t, k) ==
    IF k > Len(connections(t)) THEN h
    ELSE connectAll(connectTo(h, cfg[connections(t)[k][1]],
                              SSHHost[hostOf(t, connections(t)[k][2])]),
                    cfg, t, k + 1)

\* Host-level runner configurations of SpecPrepare.
HostRunnerInputs ==
    {<<>>,
     <<[ZeroValue EXCEPT !.Args = <<[parallel_streams |-> 4, interval |-> 4]>>,
                         !.Port = 5201, !.Host = "10.0.0.7"]>>,
     <<[ZeroValue EXCEPT !.TargetHost = "192.168.0.7",
                         !.ClientArgs = <<[parallel_streams |-> 0]>>]>>}

\* Test-level runner configurations of SpecPrepare.
TestConfigInputs ==
    {<<>>,
     <<[ZeroValue EXCEPT !.Duration = 20, !.Args = <<[interval |-> 8]>>,
                         !.Env = <<[LD_LIBRARY_PATH |-> "/opt/my libs"]>>]>>,
     <<[ZeroValue EXCEPT !.TargetHost = "192.168.0.8",
                         !.ServerArgs = <<[parallel_streams |-> 8, interval |-> 8]>>]>>}

\* The scenarios that reach "Prepare runner configurations", the two
\* intermediates of the four-node form given together.
PrepareScenarios ==
    {t \in TestScenario :
        /\ t.Delay = 0
        /\ t.Repeat \in {0, MaxRepeat}
        /\ (t.Intermediate1 = "") = (t.Intermediate2 = "")
        /\ (t.Intermediate # "" => t.Intermediate1 = "")
        /\ validateTestScenario(t) = <<>>
        /\ Preflight(SingleRunner, t, runners, sshClients) = <<>>}

\* The configuration document read into the heap: the Runner of each host
\* in turn, then the Config of the scenario.
RECURSIVE StoreAll(_, _, _)
StoreAll(h, vals, k) ==
    IF k > Len(vals) THEN [h |-> h, a |-> <<>>]
    ELSE LET s == Store(h, vals[k])
             rest == StoreAll(s.h, vals, k + 1)
         IN  [h |-> rest.h, a |-> <<s.a>> \o rest.a]

HostOrder == <<"h1", "h2", "h3", "h4">>

InitPrepare ==
    /\ tests \in [1..1 -> PrepareScenarios]
    /\ InitRun
    /\ InitConn
    /\ InitParse
    /\ InitReg
    /\ InitCoord
    /\ pc = "load"
    /\ \E hv \in [1..Len(HostOrder) -> HostRunnerInputs], tv \in TestConfigInputs :
         LET s == StoreAll(EmptyHeap, hv \o <<tv>>, 1)
         IN  /\ heap = s.h
             /\ hostRunner = [h \in Hosts |->
                                s.a[CHOOSE k \in DOMAIN HostOrder : HostOrder[k] = h]]
             /\ testConfig = s.a[Len(HostOrder) + 1]
    /\ roleConfig = [r \in Roles |-> 0]
    /\ shown = [r \in Roles |-> <<>>]
    /\ sent = [r \in Roles |-> <<>>]
    /\ call = NoCall
    /\ ret = <<>>

\* ExecuteTest, "Prepare runner configurations": each role's merge and role,
\* then the addresses of the topology.
PrepareConfigs ==
    /\ pc = "load"
    /\ LET m == mergeAll(heap, [r \in Roles |-> 0], test, hostRunner, testConfig, 1)
       IN  /\ heap' = connectAll(m.h, m.cfg, test, 1)
           /\ roleConfig' = m.cfg
    /\ pc' = "launch"
    /\ UNCHANGED <<cfgVars, runVars>>
    /\ UNCHANGED <<hostRunner, testConfig, shown, sent, call, ret>>
    /\ UNCHANGED <<connVars, parseVars, regVars, coordVars>>

\* The range orders of the BuildCommand calls of a set of roles.
buildOrders(h, cfg, roles) ==
    {f \in [roles -> UNION {RangeOrders(GetEffectiveArgs(h, cfg[r])) : r \in roles}] :
        \A r \in roles : f[r] \in RangeOrders(GetEffectiveArgs(h, cfg[r]))}

\* "Build commands for display": result.XCommand = xRunner.BuildCommand(*xConfig)
BuildDisplayCommands ==
    /\ pc = "launch"
    /\ \E f \in buildOrders(heap, roleConfig, {r \in Roles : roleConfig[r] # 0}) :
         shown' = [r \in Roles |->
                     IF roleConfig[r] = 0 THEN <<>>
                     ELSE BuildCommand(GetRunnerForRole(runnerConf, r), heap, roleConfig[r], f[r])]
    /\ pc' = "collect_server"
    /\ UNCHANGED <<cfgVars, runVars>>
    /\ UNCHANGED <<heap, hostRunner, testConfig, roleConfig, sent, call, ret>>
    /\ UNCHANGED <<connVars, parseVars, regVars, coordVars>>

\* runRemoteCommand of role r up to ExecuteCommand: Validate rejects the
\* Config, or the command is built and sent.
RunRemoteCommand(r) ==
    /\ pc = "collect_server"
    /\ roleConfig[r] # 0
    /\ task[r].st = "none"
    /\ IF Validate(GetRunnerForRole(runnerConf, r), heap, roleConfig[r]) # <<>>
       THEN /\ task' = [task EXCEPT ![r] =
                   [st |-> "done",
                    out |-> runRemoteCommand(
                               Validate(GetRunnerForRole(runnerConf, r), heap, roleConfig[r]), NoOut,
                               <<>>)]]
            /\ UNCHANGED <<sent, issued>>
       ELSE /\ \E order \in RangeOrders(GetEffectiveArgs(heap, roleConfig[r])) :
                 sent' = [sent EXCEPT ![r] =
                    <<BuildCommand(GetRunnerForRole(runnerConf, r), heap, roleConfig[r], order)>>]
            /\ task' = [task EXCEPT ![r].st = "inflight"]
            /\ issued' = issued \cup {r}
    /\ UNCHANGED <<cfgVars, pc>>
    /\ UNCHANGED <<result, retErr, expired, vi, checked, li, launched, settles, deadline>>
    /\ UNCHANGED <<heap, hostRunner, testConfig, roleConfig, shown, call, ret>>
    /\ UNCHANGED <<connVars, parseVars, regVars, coordVars>>

\* The next iteration of the repeat loop: ExecuteTest is entered again with
\* the same scenario and the same host configurations.
NextRepeat ==
    /\ pc = "collect_server"
    /\ \A r \in Roles : roleConfig[r] # 0 => task[r].st # "none"
    /\ j + 1 < repeatOf(test)
    /\ j' = j + 1
    /\ pc' = "load"
    /\ roleConfig' = [r \in Roles |-> 0]
    /\ shown' = [r \in Roles |-> <<>>]
    /\ sent' = [r \in Roles |-> <<>>]
    /\ task' = [r \in Roles |-> NoTask]
    /\ issued' = {}
    /\ UNCHANGED <<tests, i, results, delays>>
    /\ UNCHANGED <<result, retErr, expired, vi, checked, li, launched, settles, deadline>>
    /\ UNCHANGED <<heap, hostRunner, testConfig, call, ret>>
    /\ UNCHANGED <<connVars, parseVars, regVars, coordVars>>

NextPrepare ==
    \/ PrepareConfigs
    \/ BuildDisplayCommands
    \/ \E r \in Roles : RunRemoteCommand(r)
    \/ NextRepeat

SpecPrepare == InitPrepare /\ [][NextPrepare]_vars


\* --------------------------------------------- ConnectHosts and Cleanup
\* SpecConnect follows App.Run around the connections: the per-host tasks
\* of ConnectHosts, its return, and up to MaxCleanups calls of Cleanup.
\* The tasks write sshClients without a lock of their own, so a write that
\* overlaps another one is a data race: it lands, is lost, or the runtime
\* stops the process ("concurrent map writes").

\* Client.Close on a Client whose client field is c ("nil" or "open"), the
\* underlying close failing or not: the field afterwards and the error.
Close(c, fails) ==
    IF c # "nil"
    THEN [client |-> "nil", err |-> IF fails THEN <<"close failed">> ELSE <<>>]
    ELSE [client |-> "nil", err |-> <<>>]

InitConnect ==
    /\ tests = <<TwoNodeScenario>>
    /\ InitRun
    /\ InitParse
    /\ InitReg
    /\ InitCoord
    /\ heap = EmptyHeap
    /\ hostRunner = [h \in Hosts |-> 0]
    /\ testConfig = 0
    /\ roleConfig = [r \in Roles |-> 0]
    /\ shown = [r \in Roles |-> <<>>]
    /\ sent = [r \in Roles |-> <<>>]
    /\ call = NoCall
    /\ ret = <<>>
    /\ app = "connect"
    /\ gor = [h \in Hosts |-> "start"]
    /\ conn = [h \in Hosts |-> "nil"]
    /\ held = {}
    /\ errCh = {}
    /\ writing = {}
    /\ raced = {}
    /\ connectErr = <<>>
    /\ closeCalls = [h \in Hosts |-> 0]
    /\ closeLog = {}
    /\ cleanups = 0

\* client := ssh.NewClient(cfg.SSH); client.Connect(ctx): the connection is
\* made, or the error goes to errCh and the task ends.
ConnectAttempt(h) ==
    /\ app = "connect"
    /\ gor[h] = "start"
    /\ \/ /\ gor' = [gor EXCEPT ![h] = "failed"]
          /\ errCh' = errCh \cup {h}
          /\ UNCHANGED conn
       \/ /\ gor' = [gor EXCEPT ![h] = "opened"]
          /\ conn' = [conn EXCEPT ![h] = "open"]
          /\ UNCHANGED errCh
    /\ UNCHANGED <<cfgVars, runVars, pc, confVars, parseVars, regVars, coordVars>>
    /\ UNCHANGED <<app, held, writing, raced, connectErr, closeCalls, closeLog, cleanups>>

\* c.sshClients[name] = client begins.
MapWriteBegin(h) ==
    /\ app = "connect"
    /\ gor[h] = "opened"
    /\ gor' = [gor EXCEPT ![h] = "writing"]
    /\ writing' = writing \cup {h}
    /\ raced' = IF writing # {} THEN raced \cup writing \cup {h} ELSE raced
    /\ UNCHANGED <<cfgVars, runVars, pc, confVars, parseVars, regVars, coordVars>>
    /\ UNCHANGED <<app, conn, held, errCh, connectErr, closeCalls, closeLog, cleanups>>

\* c.sshClients[name] = client ends; a write that raced may be lost.
MapWriteEnd(h) ==
    /\ app = "connect"
    /\ gor[h] = "writing"
    /\ writing' = writing \ {h}
    /\ \/ /\ held' = held \cup {h}
          /\ gor' = [gor EXCEPT ![h] = "written"]
       \/ /\ h \in raced
          /\ gor' = [gor EXCEPT ![h] = "lost"]
          /\ UNCHANGED held
    /\ UNCHANGED <<cfgVars, runVars, pc, confVars, parseVars, regVars, coordVars>>
    /\ UNCHANGED <<app, conn, errCh, raced, connectErr, closeCalls, closeLog, cleanups>>

\* The runtime detects the concurrent map writes and stops the process.
Crash ==
    /\ app = "connect"
    /\ writing \cap raced # {}
    /\ app' = "crashed"
    /\ UNCHANGED <<cfgVars, runVars, pc, confVars, parseVars, regVars, coordVars>>
    /\ UNCHANGED <<gor, conn, held, errCh, writing, raced, connectErr, closeCalls,
                   closeLog, cleanups>>

\* wg.Wait() is over; the errors of errCh are collected and returned.
ConnectHostsReturn ==
    /\ app = "connect"
    /\ \A h \in Hosts : gor[h] \in {"failed", "written", "lost"}
    /\ IF errCh # {}
       THEN /\ connectErr' = <<"connection errors">>
            /\ app' = "connect_failed"
       ELSE /\ connectErr' = <<>>
            /\ app' = "connected"
    /\ UNCHANGED <<cfgVars, runVars, pc, confVars, parseVars, regVars, coordVars>>
    /\ UNCHANGED <<gor, conn, held, errCh, writing, raced, closeCalls, closeLog, cleanups>>

\* Cleanup with the map left as it is.
Cleanup_KeepsMap ==
    /\ app \in {"connected", "connect_failed", "cleaned"}
    /\ cleanups < MaxCleanups
    /\ \E failing \in SUBSET held :
         /\ conn' = [h \in Hosts |-> IF h \in held THEN Close(conn[h], h \in failing).client
                                     ELSE conn[h]]
         /\ closeLog' = closeLog \cup
                          {h \in held : Close(conn[h], h \in failing).err # <<>>}
    /\ closeCalls' = [h \in Hosts |-> IF h \in held THEN closeCalls[h] + 1
                                      ELSE closeCalls[h]]
    /\ held' = held
    /\ cleanups' = cleanups + 1
    /\ app' = "cleaned"
    /\ UNCHANGED <<cfgVars, runVars, pc, confVars, parseVars, regVars, coordVars>>
    /\ UNCHANGED <<gor, errCh, writing, raced, connectErr>>

\* Coordinator.Cleanup: Close on every Client of the map, an error only
\* logged, then a new empty map.
Cleanup ==
    /\ app \in {"connected", "connect_failed", "cleaned"}
    /\ cleanups < MaxCleanups
    /\ \E failing \in SUBSET held :
         /\ conn' = [h \in Hosts |-> IF h \in held THEN Close(conn[h], h \in failing).client
                                     ELSE conn[h]]
         /\ closeLog' = closeLog \cup
                          {h \in held : Close(conn[h], h \in failing).err # <<>>}
    /\ closeCalls' = [h \in Hosts |-> IF h \in held THEN closeCalls[h] + 1
                                      ELSE closeCalls[h]]
    /\ held' = {}
    /\ cleanups' = cleanups + 1
    /\ app' = "cleaned"
    /\ UNCHANGED <<cfgVars, runVars, pc, confVars, parseVars, regVars, coordVars>>
    /\ UNCHANGED <<gor, errCh, writing, raced, connectErr>>

NextConnect ==
    \/ \E h \in Hosts : ConnectAttempt(h)
    \/ \E h \in Hosts : MapWriteBegin(h)
    \/ \E h \in Hosts : MapWriteEnd(h)
    \/ Crash
    \/ ConnectHostsReturn
    \/ Cleanup

SpecConnect == InitConnect /\ [][NextConnect]_vars


\* ================================================================ claims
Last(q) == q[Len(q)]

launchedRoles == {launched[k].role : k \in 1..Len(launched)}

IntermediateRoles == {"intermediate", "intermediate1", "intermediate2"}

\* ExecuteTest has returned a TestResult (and a nil error).
ReturnedResult == pc = "returned" /\ retErr = <<>>

\* The error text contains "timed out".
ContainsTimedOut(e) ==
    \E k \in 1..Len(e) : e[k] \in {"command timed out", "test timed out"}

\* C1 (as stated): a TestResult returned by ExecuteTest has Success = true
\* exactly when every role launched in that run has a Result with
\* Success = true and Error is empty.
C1_EveryLaunchedRoleHasResult ==
    ReturnedResult =>
        (result.Success <=>
            /\ \A r \in launchedRoles :
                 /\ result[resultField(r)] # <<>>
                 /\ result[resultField(r)][1].Success
            /\ result.Error = <<>>)

\* C1 (amended): a TestResult returned by ExecuteTest has Success = true
\* exactly when the client and the server each have a Result with
\* Success = true, every intermediate Result present in the TestResult has
\* Success = true, and Error is empty; an intermediate whose outcome was not
\* collected within its grace period does not enter the aggregate.  A
\* client or server task that ended in an error makes the aggregate false.
C1_AggregateLaw ==
    ReturnedResult =>
        /\ result.Success <=>
             /\ \A r \in {"client", "server"} :
                  /\ result[resultField(r)] # <<>>
                  /\ result[resultField(r)][1].Success
             /\ \A r \in IntermediateRoles :
                  \/ result[resultField(r)] = <<>>
                  \/ result[resultField(r)][1].Success
             /\ result.Error = <<>>
        /\ \A r \in {"client", "server"} :
             (task[r].st # "done" \/ task[r].out.err # <<>>) => ~result.Success

\* C1 witness: a three-node run returned Success = true although the
\* launched intermediate delivered no Result.
C1_Witness ==
    /\ ReturnedResult
    /\ result.Success
    /\ "intermediate" \in launchedRoles
    /\ result.IntermediateResult = <<>>

\* C2 (as stated): when the client's command was still in flight as the
\* scenario deadline passed, the TestResult recorded for the repeat has an
\* Error containing "timed out" and still holds every role Result that had
\* been delivered before the deadline.
C2_TimeoutKeepsResults ==
    (/\ pc \in {"loop", "delay", "finished"}
     /\ Len(results) > 0
     /\ deadline.hit
     /\ "client" \in deadline.inflight)
    => /\ ContainsTimedOut(Last(results).Error)
       /\ \A r \in deadline.delivered : Last(results)[resultField(r)] # <<>>

\* The order in which the claim says the roles of a topology are started.
ClaimedOrder(t) ==
    IF t.Intermediate1 # "" /\ t.Intermediate2 # ""
    THEN <<"server", "intermediate2", "intermediate1", "client">>
    ELSE IF t.Intermediate # ""
    THEN <<"server", "intermediate", "client">>
    ELSE <<"server", "client">>

\* C3: the role tasks are started closest-to-server first, each one after
\* the previous role's task was started and one more settle delay elapsed;
\* a command is only issued by a started task, and the client's command is
\* never issued before every other participating role's task was started.
C3_LaunchOrder ==
    /\ Len(launched) <= Len(ClaimedOrder(test))
    /\ \A k \in 1..Len(launched) :
         /\ launched[k].role = ClaimedOrder(test)[k]
         /\ launched[k].settles = k - 1
    /\ issued \subseteq launchedRoles
    /\ \A r \in Roles : task[r].st # "none" => r \in launchedRoles
    /\ "client" \in issued => Len(launched) = Len(ClaimedOrder(test))

\* C3 witness: a four-node run in which the client's command was issued.
C3_Witness ==
    /\ HasFourNodeTopology(test)
    /\ "client" \in issued
    /\ Len(launched) = 4

\* The Result a role's command that exited with a non-zero status should
\* leave in the TestResult.
FailedResult == [Success |-> FALSE, ExitCode |-> 1,
                 Error |-> <<"Process exited with status 1">>]

\* The executor received role r's outcome, and that outcome is a command
\* that finished with a non-zero exit status.
ReceivedNonZeroExit(r) ==
    /\ task[r].st = "done"
    /\ task[r].out = runRemoteCommand(<<>>, ExecuteCommand("exitN"), <<>>)
    /\ \/ r = "client" /\ retErr = <<"client execution failed">> \o task[r].out.err
       \/ r = "server" /\ retErr = <<>>
            /\ result.Error = <<"server execution failed">> \o task[r].out.err
       \/ r \in IntermediateRoles /\ retErr = <<>>
            /\ result.Error = <<intermediateFailed(r)>> \o task[r].out.err

\* C4 (as stated): when a role's command finishes with a non-zero exit
\* code, the TestResult recorded for the repeat holds that role's Result
\* with Success = false and the exit code, and its aggregate is false.
C4_NonZeroExitRecorded ==
    (pc \in {"loop", "delay", "finished"} /\ Len(results) > 0)
    => \A r \in Roles :
         ReceivedNonZeroExit(r) =>
            /\ Last(results)[resultField(r)] = <<FailedResult>>
            /\ ~Last(results).Success


\* max(1, repeat), as the claim words it.
ClaimedRepeats(t) == IF t.Repeat > 1 THEN t.Repeat ELSE 1

\* n copies of x.
Copies(x, n) == [k \in 1..n |-> x]

\* Scenario names of the results after the scenarios before idx ran all
\* their repeats and scenario idx ran n of them.
RECURSIVE ExpectedNames(_, _, _)
ExpectedNames(ts, idx, n) ==
    IF idx = 1 THEN Copies(1, n)
    ELSE ExpectedNames(ts, idx - 1, ClaimedRepeats(ts[idx - 1])) \o Copies(idx, n)

\* Delays waited when every scenario up to idx ran all its repeats.
RECURSIVE ExpectedDelays(_, _)
ExpectedDelays(ts, idx) ==
    IF idx = 0 THEN 0
    ELSE ExpectedDelays(ts, idx - 1)
         + (IF ts[idx].Delay > 0 THEN ClaimedRepeats(ts[idx]) - 1 ELSE 0)

\* C5: RunAllTests runs the scenarios in configuration order, each
\* max(1, repeat) times, whatever a repeat returns: the results hold exactly
\* one TestResult per repeat run so far, in execution order; it finishes
\* only after the last repeat of the last scenario; the inter-repeat delay
\* is waited only between two repeats of one scenario.
C5_OneResultPerRepeat ==
    /\ pc \in {"loop", "returned", "delay", "finished"} =>
         [k \in 1..Len(results) |-> results[k].ScenarioName] = ExpectedNames(tests, i, j)
    /\ pc = "finished" =>
         /\ i = Len(tests)
         /\ j = ClaimedRepeats(test)
         /\ delays = ExpectedDelays(tests, Len(tests))
    /\ pc = "delay" =>
         /\ test.Delay > 0
         /\ j >= 1
         /\ j < ClaimedRepeats(test)

\* C5 witness: two scenarios, the first with two repeats and a delay, were
\* run to the end although the first repeat returned an error.
C5_Witness ==
    /\ pc = "finished"
    /\ Len(tests) = 2
    /\ tests[1].Repeat = 2
    /\ tests[1].Delay > 0
    /\ Len(results) >= 3
    /\ results[1].Error # <<>>
    /\ results[1].ClientResult = <<>>
    /\ delays >= 1

\* The classification as the claim words it.
ClaimedTopology(t) ==
    IF t.Intermediate1 # "" /\ t.Intermediate2 # "" THEN "4-node"
    ELSE IF t.Intermediate # "" THEN "3-node"
    ELSE "2-node"

\* The roles that take part in a topology.
RolesOfTopology(top) ==
    CASE top = "4-node" -> {"server", "intermediate1", "intermediate2", "client"}
      [] top = "3-node" -> {"server", "intermediate", "client"}
      [] top = "2-node" -> {"server", "client"}

\* C6: GetTopologyType classifies by the populated intermediate fields
\* (intermediate1 and intermediate2 both set: four-node, also when
\* intermediate is set; else intermediate set: three-node; else two-node),
\* and the roles the executor starts are those of that topology.
C6_TopologyClassification ==
    /\ GetTopologyType(test) = ClaimedTopology(test)
    /\ launchedRoles \subseteq RolesOfTopology(GetTopologyType(test))
    /\ "client" \in launchedRoles =>
         launchedRoles = RolesOfTopology(GetTopologyType(test))

\* C6 witness: a scenario with intermediate, intermediate1 and
\* intermediate2 all set ran as four-node.
C6_Witness ==
    /\ test.Intermediate # ""
    /\ test.Intermediate1 # ""
    /\ test.Intermediate2 # ""
    /\ "client" \in launchedRoles
    /\ Len(launched) = 4

\* C7 (as stated): for a scenario that sets only one of intermediate1 and
\* intermediate2 no role's command is ever issued.
C7_DanglingIntermediateRejected ==
    ((test.Intermediate1 = "") # (test.Intermediate2 = "")) => issued = {}

\* The host identifiers of a scenario's participants: client, server and
\* every populated intermediate field.
Participants(t) ==
    <<t.Client, t.Server>>
    \o (IF t.Intermediate # "" THEN <<t.Intermediate>> ELSE <<>>)
    \o (IF t.Intermediate1 # "" THEN <<t.Intermediate1>> ELSE <<>>)
    \o (IF t.Intermediate2 # "" THEN <<t.Intermediate2>> ELSE <<>>)

PairwiseDistinct(q) == \A a, b \in 1..Len(q) : a # b => q[a] # q[b]

\* C8 (as stated): every scenario for which a command is issued has
\* pairwise distinct participating hosts.
C8_DistinctHosts ==
    issued # {} => PairwiseDistinct(Participants(test))

\* C9: when ExecuteTest returns the executable-check error, no role's task
\* has been started and no benchmark command has been issued.
C9_CheckFailsBeforeStart ==
    (pc = "returned" /\ retErr # <<>> /\ retErr[1] = "binary validation failed")
    => /\ launched = <<>>
       /\ issued = {}
       /\ \A r \in Roles : task[r].st = "none"

\* C9 witness: the check failed for the second task of a four-node scenario.
C9_Witness ==
    /\ pc = "returned"
    /\ retErr # <<>>
    /\ retErr[1] = "binary validation failed"
    /\ HasFourNodeTopology(test)
    /\ checked = {"client", "server"}

\* C10 (as stated): before any role is started the executable check was
\* performed for every participating role of the scenario.
C10_EveryRoleChecked ==
    launched # <<>> => RolesOfTopology(ClaimedTopology(test)) \subseteq checked


\* ------------------------------------------------------------------- C11
\* runRemoteCommand returned the error of Runner.Validate for role r.
ValidateFailed(r) ==
    /\ task[r].st = "done"
    /\ task[r].out.err # <<>>
    /\ task[r].out.err[1] = "configuration validation failed"

\* C11: whenever the Validate of some role has failed in a scenario run, no
\* role's benchmark command has been issued on any host in that run.
C11_ValidateBeforeAnyCommand ==
    (\E r \in Roles : ValidateFailed(r)) => issued = {}


\* ------------------------------------------------------------------- C12
\* C12: two calls of a runner's BuildCommand with an identical configuration
\* return identical command text, flag order included.
C12_BuildCommandDeterministic ==
    (call.fn = "BuildCommand" /\ Len(ret) = 2) => ret[1] = ret[2]


\* ------------------------------------------------------------------- C15
\* The entries of a map value, an absent map having none.
mapOf(m) == IF m = <<>> THEN <<>> ELSE m[1]

\* res is the general map overridden key by key by the overlay: a key of
\* both takes the overlay value, a key of the general map alone keeps its
\* value, a key of the overlay alone is added.
OverriddenBy(res, general, overlay) ==
    /\ DOMAIN res = DOMAIN general \cup DOMAIN overlay
    /\ \A k \in DOMAIN general \cap DOMAIN overlay : res[k] = overlay[k]
    /\ \A k \in DOMAIN general \ DOMAIN overlay : res[k] = general[k]
    /\ \A k \in DOMAIN overlay \ DOMAIN general : res[k] = overlay[k]

\* The Config value a call of GetEffectiveArgs / GetEffectiveEnv was made on.
Receiver == View(heap, call.config)[1]

\* C15: GetEffectiveArgs and GetEffectiveEnv return, for the server role, the
\* general map overridden by the server overlay; for the client role, by the
\* client overlay; for every other role the general map unchanged; absent
\* maps count as empty and the other role's overlay never contributes.
C15_RoleOverlayResolution ==
    /\ (call.fn = "GetEffectiveArgs" /\ ret # <<>>) =>
          CASE Receiver.Role = "server" ->
                 OverriddenBy(ret[1], mapOf(Receiver.Args), mapOf(Receiver.ServerArgs))
            [] Receiver.Role = "client" ->
                 OverriddenBy(ret[1], mapOf(Receiver.Args), mapOf(Receiver.ClientArgs))
            [] OTHER -> ret[1] = mapOf(Receiver.Args)
    /\ (call.fn = "GetEffectiveEnv" /\ ret # <<>>) =>
          CASE Receiver.Role = "server" ->
                 OverriddenBy(ret[1], mapOf(Receiver.Env), mapOf(Receiver.ServerEnv))
            [] Receiver.Role = "client" ->
                 OverriddenBy(ret[1], mapOf(Receiver.Env), mapOf(Receiver.ClientEnv))
            [] OTHER -> ret[1] = mapOf(Receiver.Env)

\* GetEffectiveArgs has returned for the client role with a key the client
\* overlay overrides, a key of the general map alone, and a server overlay
\* that holds another value for the overridden key.
C15_Witness ==
    /\ call.fn = "GetEffectiveArgs"
    /\ ret # <<>>
    /\ Receiver.Role = "client"
    /\ Receiver.Args = <<[parallel_streams |-> 4, interval |-> 4]>>
    /\ Receiver.ClientArgs = <<[parallel_streams |-> 8]>>
    /\ Receiver.ServerArgs = <<[parallel_streams |-> 4, interval |-> 8]>>
    /\ ret[1] = [parallel_streams |-> 8, interval |-> 4]


\* ------------------------------------------------------------------- C16
\* The value of a configuration argument, an absent one being all zero.
valueOf(p) == IF p = <<>> THEN ZeroValue ELSE p[1]

\* The key-by-key union of two maps, the test-level value winning.
UnionTestWins(hm, tm) ==
    [k \in DOMAIN mapOf(hm) \cup DOMAIN mapOf(tm) |->
        IF k \in DOMAIN mapOf(tm) THEN mapOf(tm)[k] ELSE mapOf(hm)[k]]

IsMapField(f) == f \in ArgFields \cup EnvFields

\* The merge as stated: a test-level scalar replaces the host-level one
\* exactly when it is non-zero / non-empty; every map is initialized and is
\* the union of the two levels.
StatedMerge(hp, tp) ==
    [f \in DOMAIN ZeroValue |->
        IF IsMapField(f) THEN <<UnionTestWins(valueOf(hp)[f], valueOf(tp)[f])>>
        ELSE IF valueOf(tp)[f] # ZeroValue[f] THEN valueOf(tp)[f] ELSE valueOf(hp)[f]]

\* A test-level scalar that replaces the host-level one: a positive number
\* or a non-empty string.
Overrides(f, v) == IF f \in {"Duration", "Port"} THEN v > 0 ELSE v # ""

\* The merge with the numeric fields replaced exactly when the test-level
\* value is positive; when one level is absent the scalars are those of the
\* other level.
PositiveMerge(hp, tp) ==
    [f \in DOMAIN ZeroValue |->
        IF IsMapField(f) THEN <<UnionTestWins(valueOf(hp)[f], valueOf(tp)[f])>>
        ELSE IF hp = <<>> THEN valueOf(tp)[f]
        ELSE IF tp = <<>> THEN valueOf(hp)[f]
        ELSE IF Overrides(f, tp[1][f]) THEN tp[1][f] ELSE hp[1][f]]

MergeReturned == call.fn = "MergeRunnerConfig" /\ ret # <<>>

\* C16 as stated: MergeRunnerConfig(host, test) is never nil, has every map
\* initialized, and a test-level duration, port, target address, address or
\* role replaces the host-level value exactly when it is non-zero/non-empty.
C16_MergeNonZeroReplaces ==
    MergeReturned =>
        View(heap, ret[1]) =
            <<StatedMerge(View(heap, call.config), View(heap, call.testConfig))>>

\* C16, amended: the same, with a test-level duration or port replacing the
\* host-level one exactly when it is positive (a negative test-level value
\* is ignored when both levels are present).
C16_MergePositiveReplaces ==
    MergeReturned =>
        View(heap, ret[1]) =
            <<PositiveMerge(View(heap, call.config), View(heap, call.testConfig))>>

\* MergeRunnerConfig has returned for a host level and a test level that
\* share a key, each hold a key of their own, and differ in their scalars.
C16_Witness ==
    /\ MergeReturned
    /\ View(heap, call.config) # <<>>
    /\ View(heap, call.testConfig) # <<>>
    /\ View(heap, call.config)[1].Args = <<[parallel_streams |-> 4]>>
    /\ View(heap, call.testConfig)[1].Args = <<[parallel_streams |-> 8, interval |-> 8]>>
    /\ View(heap, call.config)[1].ServerArgs = <<[interval |-> 4]>>
    /\ View(heap, ret[1])[1].Args = <<[parallel_streams |-> 8, interval |-> 8]>>
    /\ View(heap, ret[1])[1].ServerArgs = <<[interval |-> 4]>>
    /\ View(heap, ret[1])[1].ClientEnv = <<[CUDA_VISIBLE_DEVICES |-> "0"]>>
    /\ View(heap, ret[1])[1].Duration = 20
    /\ View(heap, ret[1])[1].Port = 5201
    /\ View(heap, ret[1])[1].Role = "server"


ClaimedNextHop(t, role) ==
    IF t.Intermediate1 # "" /\ t.Intermediate2 # ""
    THEN CASE role = "intermediate2" -> "server"
           [] role = "intermediate1" -> "intermediate2"
           [] role = "client" -> "intermediate1"
    ELSE IF t.Intermediate # ""
    THEN CASE role = "intermediate" -> "server"
           [] role = "client" -> "intermediate"
    ELSE "server"

\* The piece of command text that follows piece p, <<>> when p is not there.
After(cmd, p) ==
    IF \E k \in 1..(Len(cmd) - 1) : cmd[k] = p
    THEN <<cmd[(CHOOSE k \in 1..(Len(cmd) - 1) : cmd[k] = p) + 1]>>
    ELSE <<>>

\* The destination an iperf3 or socat command line names, <<>> for none.
DestinationOf(cmd) == After(cmd, " -c ") \o After(cmd, ",fork TCP:")

\* No target address is configured for the scenario or for a host in it.
NoTargetConfigured ==
    /\ valueOf(View(heap, testConfig)).TargetHost = ""
    /\ \A r \in Roles :
         roleConfig[r] # 0 =>
            valueOf(View(heap, hostRunner[hostOf(test, r)])).TargetHost = ""

\* C14: with no target address configured, the command sent for each role
\* names the address of the next host of the chain, and the server's command
\* names no destination.
C14_DestinationChain ==
    NoTargetConfigured =>
        \A r \in Roles :
            sent[r] # <<>> =>
                DestinationOf(sent[r][1]) =
                    IF r = "server" THEN <<>>
                    ELSE <<SSHHost[hostOf(test, ClaimedNextHop(test, r))]>>

\* A four-node run without target addresses has sent all four commands, the
\* client's host configuring an address of its own.
C14_Witness ==
    /\ NoTargetConfigured
    /\ executedTopology(test) = "4-node"
    /\ \A r \in {"server", "intermediate2", "intermediate1", "client"} : sent[r] # <<>>
    /\ valueOf(View(heap, hostRunner[test.Client])).Host = "10.0.0.7"
    /\ DestinationOf(sent["client"][1]) = <<SSHHost[test.Intermediate1]>>
    /\ DestinationOf(sent["intermediate1"][1]) = <<SSHHost[test.Intermediate2]>>

\* ------------------------------------------------------------------- C17
\* The host-level and test-level configuration objects, by value.
ConfigInputs ==
    <<[h \in Hosts |-> View(heap, hostRunner[h])], View(heap, testConfig),
      hostRunner, testConfig>>

\* C17: no step of a scenario execution (merge, role and address assignment,
\* Validate, BuildCommand, over every repeat) changes a field or a map of a
\* host's configuration or of the scenario's shared configuration.
C17_ConfigInputsUnchanged == [][ConfigInputs' = ConfigInputs]_vars

\* A repeat of a scenario whose test level and whose participating hosts all
\* hold a configuration has prepared its configurations and sent a command.
C17_Witness ==
    /\ j >= 1
    /\ testConfig # 0
    /\ \A r \in Roles : roleConfig[r] # 0 => hostRunner[hostOf(test, r)] # 0
    /\ roleConfig["client"] # 0
    /\ issued # {}


C19_FailedConnectHoldsNothing ==
    app = "connect_failed" => \A h \in Hosts : conn[h] # "open"


\* ------------------------------------------------------------------- C20
\* C20: when the scenario deadline has passed while some role's command was
\* still in flight, the TestResult recorded for the scenario is failed and
\* its error is a timeout error.
C20_ExpiryFailsResult ==
    (/\ pc \in {"loop", "delay", "finished"}
     /\ Len(results) > 0
     /\ deadline.hit
     /\ deadline.inflight # {})
    => /\ ~Last(results).Success
       /\ ContainsTimedOut(Last(results).Error)


\* ------------------------------------------------------------------- C21
\* The deadline of testCtx passed after the client's command had completed
\* with a Result and while the server's command was still in flight, and
\* ExecuteTest has returned.
ServerOutlivedDeadline ==
    /\ pc = "returned"
    /\ deadline.hit
    /\ "client" \in deadline.delivered
    /\ "server" \in deadline.inflight

\* C21: when the client has completed and the server's command is still in
\* flight as the scenario deadline passes, ExecuteTest returns a TestResult
\* and no error; the TestResult has Error = "test timed out", Success =
\* false, no server Result, and the client's Result.
C21_ServerTimeoutResult ==
    ServerOutlivedDeadline =>
        /\ retErr = <<>>
        /\ result.Error = <<"test timed out">>
        /\ ~result.Success
        /\ result.ServerResult = <<>>
        /\ result.ClientResult = task["client"].out.result


\* ------------------------------------------------------------------- C22
\* The executor leaves the select that waits for intermediate r while r's
\* task has delivered nothing: the grace period ran out.
GraceExpired(r) ==
    /\ pc = collectPc(r)
    /\ task[r].st # "done"
    /\ pc' # pc

\* The aggregate over every role but r.
SuccessWithout(r) ==
    /\ result.ClientResult # <<>> /\ result.ClientResult[1].Success
    /\ (result.ServerResult = <<>> \/ result.ServerResult[1].Success)
    /\ \A q \in IntermediateRoles \ {r} :
         result[resultField(q)] = <<>> \/ result[resultField(q)][1].Success
    /\ result.Error = <<>>

\* C22: an intermediate that has delivered nothing when its grace period
\* runs out changes nothing in the TestResult and does not end ExecuteTest;
\* when ExecuteTest returns with that intermediate still not finished, the
\* TestResult has no Result for it, its Error does not name it, and its
\* Success is the aggregate over the other roles.
C22_GraceTimeoutOnlyWarns ==
    /\ [][\A r \in IntermediateRoles :
            GraceExpired(r) =>
                /\ result' = result
                /\ retErr' = retErr
                /\ pc' = afterCollect(test, collectIndex(test, r))]_vars
    /\ [](ReturnedResult =>
            \A r \in IntermediateRoles \cap launchedRoles :
                task[r].st # "done" =>
                    /\ result[resultField(r)] = <<>>
                    /\ (result.Error = <<>> \/ result.Error[1] # intermediateFailed(r))
                    /\ (result.Success <=> SuccessWithout(r)))

\* C22 witness: a four-node run returned Success = true with the Result of
\* intermediate2 while intermediate1 had still not finished.
C22_Witness ==
    /\ ReturnedResult
    /\ result.Success
    /\ result.Intermediate2Result # <<>>
    /\ "intermediate1" \in launchedRoles
    /\ task["intermediate1"].st # "done"


\* ------------------------------------------------------------------- C23
\* A task that has ended has exactly one of a Result and an error, a task
\* that has not ended has neither, and a Result in the TestResult is the
\* one its role's task produced.
OneOutcome ==
    \A r \in Roles :
        /\ task[r].st = "done" =>
              (task[r].out.result = <<>>) # (task[r].out.err = <<>>)
        /\ task[r].st # "done" => task[r].out = NoOut
        /\ result[resultField(r)] # <<>> =>
              /\ task[r].st = "done"
              /\ result[resultField(r)] = task[r].out.result

\* A step within one run of ExecuteTest and its recording: the outcome of
\* an ended task and a Result placed in the TestResult stay as they are, at
\* most one task's outcome is written, and the recorded TestResults stay as
\* they are.
OutcomesKept ==
    /\ pc # "loop" =>
          /\ \A r \in Roles :
                /\ task[r].st = "done" => task'[r] = task[r]
                /\ result[resultField(r)] # <<>> =>
                      result'[resultField(r)] = result[resultField(r)]
          /\ Cardinality({r \in Roles : task'[r].out # task[r].out}) <= 1
    /\ Len(results') >= Len(results)
    /\ \A k \in 1..Len(results) : results'[k] = results[k]

\* C23: every role task ends with exactly one outcome, a Result or an error
\* and never both; the outcome of an ended task is never replaced; a Result
\* placed in the TestResult is the task's own and is not changed afterwards,
\* nor is a recorded TestResult; no step writes the outcome of two tasks.
C23_OneOutcomePerTask == []OneOutcome /\ [][OutcomesKept]_vars

\* C23 witness: a three-node run has returned, with the Results of client
\* and server in the TestResult and the intermediate's task ended in an
\* error.
C23_Witness ==
    /\ ReturnedResult
    /\ result.ClientResult # <<>>
    /\ result.ServerResult # <<>>
    /\ task["intermediate"].st = "done"
    /\ task["intermediate"].out.err # <<>>


\* ------------------------------------------------------------------- C24
\* How far a role's task has come.
Stage(st) ==
    CASE st = "none" -> 0
      [] st = "launched" -> 1
      [] st = "inflight" -> 2
      [] st = "done" -> 3

\* RunAllTests enters ExecuteTest for the next repeat of the scenario: every
\* role starts afresh.
WholeScenarioRepeat ==
    /\ pc = "loop"
    /\ j < repeatOf(test)
    /\ task' = [r \in Roles |-> NoTask]
    /\ issued' = {}
    /\ launched' = <<>>

\* C24: within one repeat a role's command is issued at most once, on the
\* single step that takes its task from started to in flight; a task that
\* is in flight or has ended (failed and timed out included) is never set
\* back, except that the next whole-scenario repeat starts every role afresh.
C24_CommandIssuedOnce ==
    [][/\ \A r \in Roles :
            /\ (r \in issued' /\ r \notin issued) =>
                  task[r].st = "launched" /\ task'[r].st = "inflight"
            /\ (task'[r].st = "inflight" /\ task[r].st # "inflight") => r \notin issued
       /\ (\/ \E r \in Roles : Stage(task'[r].st) < Stage(task[r].st)
           \/ ~(issued \subseteq issued'))
          => WholeScenarioRepeat]_vars

\* C24 witness: in the second repeat of a three-node scenario the
\* intermediate's command is in flight again, after the first repeat was
\* recorded as failed.
C24_Witness ==
    /\ j = 1
    /\ Len(results) = 1
    /\ ~results[1].Success
    /\ HasIntermediateNode(test)
    /\ task["intermediate"].st = "inflight"
    /\ "intermediate" \in issued


\* ------------------------------------------------------------------- C25
\* Validate has returned.
ValidateReturned == call.fn = "Validate" /\ ret # <<>>

\* The error says that an address is missing.
AddressRequired(e) ==
    /\ e # <<>>
    /\ e[1] \in {"target_host or host is required for client role",
                 "target_host or host is required for intermediate role"}

NoAddress(c) == c.TargetHost = "" /\ c.Host = ""

\* The roles the claim takes every runner to support.
ClaimedRoles == {"client", "server", "intermediate"}

\* What the claim says of a Validate call of a runner that holds the
\* address rule: an unsupported role is rejected, a client or intermediate
\* without any address is rejected, and a server is never asked for an
\* address and is accepted when nothing else is set.
AddressRule(c, e) ==
    /\ c.Role \notin ClaimedRoles => e # <<>>
    /\ (c.Role \in {"client", "intermediate"} /\ NoAddress(c)) => e # <<>>
    /\ c.Role = "server" =>
          /\ ~AddressRequired(e)
          /\ (c.Port = 0 /\ c.Args = <<>>) => e = <<>>

\* C25 (as stated): every registered runner's Validate holds the address
\* rule.
C25_EveryRunnerRequiresTarget ==
    ValidateReturned => AddressRule(Receiver, ret[1])

\* C25 (amended): every registered runner's Validate rejects a role the
\* runner does not support; the Validate of iperf3 and of ib_send_bw holds
\* the address rule; the Validate of testpmd asks no role for an address
\* and accepts a client or intermediate configuration without addresses
\* when its parameters are valid.
C25_AddressRulePerRunner ==
    ValidateReturned =>
        /\ Receiver.Role \notin ClaimedRoles => ret[1] # <<>>
        /\ call.runner \in {"iperf3", "ib_send_bw"} => AddressRule(Receiver, ret[1])
        /\ call.runner = "testpmd" =>
              /\ ~AddressRequired(ret[1])
              /\ (Receiver.Role \in ClaimedRoles /\ Receiver.Args = <<>>) => ret[1] = <<>>

\* C25 witness: testpmd has accepted an intermediate configuration that
\* has valid parameters and no address at all.
C25_Witness ==
    /\ ValidateReturned
    /\ call.runner = "testpmd"
    /\ Receiver.Role = "intermediate"
    /\ NoAddress(Receiver)
    /\ Receiver.Args # <<>>
    /\ ret[1] = <<>>


\* ------------------------------------------------------------------- C26
\* The outcome of a role whose command exited with status 0.
CleanOutcome == runRemoteCommand(<<>>, ExecuteCommand("exit0"), <<>>)

\* The role an Error of the TestResult blames, "" when it blames none.
Blamed(e) ==
    IF e = <<>> THEN ""
    ELSE IF e[1] = "server execution failed" THEN "server"
    ELSE IF e[1] \in {intermediateFailed(r) : r \in IntermediateRoles}
    THEN CHOOSE r \in IntermediateRoles : intermediateFailed(r) = e[1]
    ELSE ""

\* C26: a role whose ParseMetrics failed has the outcome its exit code alone
\* gives it (a Result with Success = true for exit status 0, and no error);
\* that Result is what the executor receives; the failure is never the
\* TestResult's Error or the error ExecuteTest returns; and a run in which
\* no task ended in an error and no deadline passed returns Success = true
\* even though the ParseMetrics of client and server failed.
C26_ParseFailureNotFatal ==
    /\ \A r \in warnings :
          /\ task[r].st = "done"
          /\ task[r].out = CleanOutcome
    /\ Blamed(result.Error) \notin warnings
    /\ (pc = "returned" /\ "client" \in warnings) =>
          retErr = <<>> /\ result.ClientResult = CleanOutcome.result
    /\ \A r \in warnings :
          (r # "client" /\ result[resultField(r)] # <<>>) =>
              result[resultField(r)] = CleanOutcome.result
    /\ (/\ ReturnedResult
        /\ ~deadline.hit
        /\ {"client", "server"} \subseteq warnings
        /\ \A r \in Roles : task[r].out.err = <<>>)
       => result.Success /\ result.Error = <<>> /\ result.ServerResult = CleanOutcome.result

\* C26 witness: a three-node run returned Success = true with the Results
\* of all three roles, the ParseMetrics of each of them having failed.
C26_Witness ==
    /\ ReturnedResult
    /\ warnings = {"client", "server", "intermediate"}
    /\ result.Success
    /\ result.IntermediateResult # <<>>


\* ---------------------------------------------- the registry on its own
\* Tasks that call Register, CreateWithPath and GetRegistered on the global
\* registry at the same time, each call in the steps the RWMutex allows:
\* take the lock, run the body, release the lock on return.

\* The names tasks register.  The factory makes a new runner of the name it
\* is registered under on every call, as the factories of init and of
\* TestRegistry_ConcurrentAccess do.
RegisterNames == {"concurrent_test_1"}

\* The names tasks ask Create for.
CreateNames == {"ib_send_bw", "concurrent_test_1", "non_existent_runner"}

\* The executable paths tasks pass and set.
BinaryPaths == {"/opt/perftest/ib_send_bw"}

InitRegistry ==
    /\ tests = <<TwoNodeScenario>>
    /\ InitRun
    /\ InitAux

\* A task starts a call.
RegistryCall(t) ==
    /\ caller[t].pc = "idle"
    /\ caller[t].ops < MaxOps
    /\ \/ \E n \in RegisterNames :
            caller' = [caller EXCEPT ![t] =
                          [NoOp EXCEPT !.pc = "lock", !.op = "Register",
                                       !.name = n, !.ops = caller[t].ops]]
       \/ \E n \in CreateNames, b \in BinaryPaths \cup {""} :
            caller' = [caller EXCEPT ![t] =
                          [NoOp EXCEPT !.pc = "lock", !.op = "CreateWithPath",
                                       !.name = n, !.path = b,
                                       !.ops = caller[t].ops]]
       \/ caller' = [caller EXCEPT ![t] =
                          [NoOp EXCEPT !.pc = "lock", !.op = "GetRegistered",
                                       !.ops = caller[t].ops]]
    /\ UNCHANGED <<registry, mu, instances>>
    /\ UNCHANGED <<cfgVars, runVars, pc, confVars, connVars, parseVars, coordVars>>

\* globalRegistry.mu.Lock() in Register, mu.RLock() in the two readers
RegistryLock(t) ==
    /\ caller[t].pc = "lock"
    /\ IF caller[t].op = "Register"
       THEN /\ mu.writer = "" /\ mu.readers = {}
            /\ mu' = [mu EXCEPT !.writer = t]
       ELSE /\ mu.writer = ""
            /\ mu' = [mu EXCEPT !.readers = @ \cup {t}]
    /\ caller' = [caller EXCEPT ![t].pc = "body"]
    /\ UNCHANGED <<registry, instances>>
    /\ UNCHANGED <<cfgVars, runVars, pc, confVars, connVars, parseVars, coordVars>>

\* The body of the call, the lock being held.
RegistryBody(t) ==
    /\ caller[t].pc = "body"
    /\ CASE caller[t].op = "Register" ->
              /\ registry' = Override(registry,
                                      [n \in {caller[t].name} |-> caller[t].name])
              /\ caller' = [caller EXCEPT ![t].pc = "unlock"]
              /\ UNCHANGED instances
         [] caller[t].op = "CreateWithPath" ->
              LET c == CreateWithPath(registry, instances, caller[t].name,
                                      caller[t].path)
              IN  /\ instances' = c.instances
                  /\ caller' = [caller EXCEPT ![t].pc = "unlock",
                                              ![t].runner = c.runner,
                                              ![t].err = c.err]
                  /\ UNCHANGED registry
         [] caller[t].op = "GetRegistered" ->
              /\ caller' = [caller EXCEPT ![t].pc = "unlock",
                                          ![t].names = DOMAIN registry]
              /\ UNCHANGED <<registry, instances>>
    /\ UNCHANGED mu
    /\ UNCHANGED <<cfgVars, runVars, pc, confVars, connVars, parseVars, coordVars>>

\* defer globalRegistry.mu.Unlock() / RUnlock(), and the call returns
RegistryUnlock(t) ==
    /\ caller[t].pc = "unlock"
    /\ mu' = IF caller[t].op = "Register"
             THEN [mu EXCEPT !.writer = ""]
             ELSE [mu EXCEPT !.readers = @ \ {t}]
    /\ caller' = [caller EXCEPT ![t].pc = "idle", ![t].ops = @ + 1]
    /\ UNCHANGED <<registry, instances>>
    /\ UNCHANGED <<cfgVars, runVars, pc, confVars, connVars, parseVars, coordVars>>

\* The task sets the executable path of the instance Create gave it.
SetExecutablePath(t) ==
    /\ caller[t].pc = "idle"
    /\ caller[t].runner # 0
    /\ \E b \in BinaryPaths :
           /\ CommandHead(instances, caller[t].runner) # b
           /\ instances' = SetPath(instances, caller[t].runner, b)
    /\ UNCHANGED <<registry, mu, caller>>
    /\ UNCHANGED <<cfgVars, runVars, pc, confVars, connVars, parseVars, coordVars>>

NextRegistry ==
    \E t \in Callers :
        \/ RegistryCall(t)
        \/ RegistryLock(t)
        \/ RegistryBody(t)
        \/ RegistryUnlock(t)
        \/ SetExecutablePath(t)

SpecRegistry == InitRegistry /\ [][NextRegistry]_vars

\* ------------------------------------------------------------------- C27
ParseReturned == call.fn = "ParseMetrics" /\ ret # <<>>

BandwidthKeys ==
    {"bandwidth_bps", "bandwidth_mbps", "bandwidth_gbps",
     "bandwidth_peak_mbps", "bandwidth_peak_bps",
     "bandwidth_average_mbps", "bandwidth_average_bps"}

Bandwidth(metrics) ==
    [k \in DOMAIN metrics \cap BandwidthKeys |-> metrics[k]]

\* The line, taken alone, gives the runner a bandwidth measurement.
Measures(name, fields) ==
    DOMAIN Bandwidth(ParseMetrics(name, <<fields>>).metrics) # {}

IsJSON(output) ==
    OutputContains(output, "\"start\"") /\ OutputContains(output, "\"end\"")

IsHeader(fields) == Contains(fields, "#bytes") /\ Contains(fields, "BW")

LastOf(S) == CHOOSE l \in S : \A o \in S : o <= l
FirstOf(S) == CHOOSE l \in S : \A o \in S : l <= o

\* C27 as stated: of several measurements of one family ParseMetrics keeps
\* the first; whatever bandwidth a leading part of the output gives (in the
\* same format, text or JSON) is what the whole output gives.
C27_FirstMatchKept ==
    ParseReturned =>
        \A n \in 1..Len(call.output) :
            LET lead == SubSeq(call.output, 1, n)
                p == Bandwidth(ParseMetrics(call.runner, lead).metrics)
            IN  IsJSON(lead) = IsJSON(call.output) =>
                    \A k \in DOMAIN p :
                        /\ k \in DOMAIN ret[1].metrics
                        /\ ret[1].metrics[k] = p[k]

\* C27, amended: which of several measurements is kept depends on the
\* parser.  iperf3 text output: the last line that measures.  iperf3 JSON
\* output: the first "bits_per_second".  ib_send_bw: the line after the
\* first table header is the last one read; with no header, the last
\* single result line gives bandwidth_bps.
C27_KeptMeasurement ==
    ParseReturned =>
        LET out == call.output
            m == ret[1].metrics
            meas == {l \in DOMAIN out : Measures(call.runner, out[l])}
            keys == {l \in DOMAIN out : Contains(out[l], "\"bits_per_second\"")}
            heads == {l \in DOMAIN out : IsHeader(out[l])}
        IN  /\ call.runner = "iperf3" /\ ~IsJSON(out) =>
                IF meas = {} THEN DOMAIN Bandwidth(m) = {}
                ELSE Bandwidth(m) =
                        Bandwidth(ParseMetrics("iperf3", <<out[LastOf(meas)]>>).metrics)
            /\ call.runner = "iperf3" /\ IsJSON(out) =>
                IF keys = {} THEN DOMAIN Bandwidth(m) = {}
                ELSE m.bandwidth_bps = Numbers[out[FirstOf(keys)][2]]
            /\ call.runner = "ib_send_bw" /\ heads # {} =>
                LET h == FirstOf(heads)
                    upTo == IF h < Len(out) THEN h + 1 ELSE h
                IN  /\ m = ParseMetrics("ib_send_bw",
                                        SubSeq(out, 1, upTo)).metrics
                    /\ h < Len(out) /\ Len(out[h + 1]) >= 4
                           /\ out[h + 1][3] \in DOMAIN Numbers =>
                        m.bandwidth_peak_mbps = Numbers[out[h + 1][3]]
            /\ call.runner = "ib_send_bw" /\ heads = {} =>
                IF meas = {} THEN DOMAIN Bandwidth(m) = {}
                ELSE m.bandwidth_bps =
                        ParseMetrics("ib_send_bw",
                                     <<out[LastOf(meas)]>>).metrics.bandwidth_bps

\* Two text lines measure different bandwidths, and the later one is kept.
C27_Witness ==
    /\ ParseReturned
    /\ call.runner = "iperf3"
    /\ call.output = <<<<"sec", "934", "Mbits/sec", "15", "KBytes">>,
                       <<"sec", "932", "Mbits/sec", "receiver">>>>
    /\ ret[1].metrics.bandwidth_mbps = Dec(932, 0)


\* ------------------------------------------------------------------- C28
\* The line holds a number directly followed by a bandwidth unit.
Recognizable(fields) ==
    \E k \in 2..Len(fields) :
        /\ fields[k] \in {"Mbits/sec", "Gbits/sec"}
        /\ fields[k - 1] \in DOMAIN Numbers

Holds934(fields) ==
    \E k \in 2..Len(fields) :
        fields[k] = "Mbits/sec" /\ fields[k - 1] = "934"

Is934(metrics) ==
    /\ {"bandwidth_mbps", "bandwidth_bps"} \subseteq DOMAIN metrics
    /\ metrics.bandwidth_mbps = Dec(934, 0)
    /\ metrics.bandwidth_bps = Dec(934, 6)

\* C28 as stated: whenever the text output contains "934 Mbits/sec",
\* iperf3's ParseMetrics yields bandwidth_mbps = 934 and bandwidth_bps =
\* 934000000.
C28_Contains934 ==
    /\ ParseReturned /\ call.runner = "iperf3" /\ ~IsJSON(call.output)
    /\ \E l \in DOMAIN call.output : Holds934(call.output[l])
    => Is934(ret[1].metrics)

\* C28, amended: ParseMetrics returns no error; for iperf3 text output
\* whose last bandwidth line holds "934 Mbits/sec" it yields bandwidth_mbps
\* = 934 and bandwidth_bps = 934000000, bandwidth_bps being the native
\* value in bits per second whatever the unit; output with no recognizable
\* bandwidth pattern yields no bandwidth key.
C28_NormalizedBandwidth ==
    ParseReturned =>
        LET out == call.output
            m == ret[1].metrics
            lines == {l \in DOMAIN out : Recognizable(out[l])}
        IN  /\ ret[1].err = <<>>
            /\ call.runner = "iperf3" /\ ~IsJSON(out) /\ lines # {} =>
                /\ Holds934(out[LastOf(lines)]) => Is934(m)
                /\ {"bandwidth_mbps", "bandwidth_gbps", "bandwidth_bps"}
                       \subseteq DOMAIN m
                /\ m.bandwidth_bps = Scale(m.bandwidth_mbps, 6)
                /\ m.bandwidth_bps = Scale(m.bandwidth_gbps, 9)
            /\ /\ call.runner = "iperf3"
               /\ lines = {}
               /\ ~OutputContains(out, "\"bits_per_second\"")
               => DOMAIN m \cap BandwidthKeys = {}

\* A 932 line, then the 934 line: 934 and 934000000 are what is kept.
C28_Witness ==
    /\ ParseReturned
    /\ call.runner = "iperf3"
    /\ call.output = <<<<"sec", "932", "Mbits/sec", "receiver">>,
                       <<"sec", "934", "Mbits/sec", "15", "KBytes">>>>
    /\ Is934(ret[1].metrics)


\* ------------------------------------------------------------------- C29
Pieces(e) == {e[k] : k \in DOMAIN e}

\* Task t's CreateWithPath runs its body in this step.
CreateStep(t) ==
    /\ caller[t].pc = "body"
    /\ caller[t].op = "CreateWithPath"
    /\ caller'[t].pc = "unlock"

\* A registered name: a new instance of that name, and no instance that
\* existed is touched.
CreatesFresh(t) ==
    caller[t].name \in DOMAIN registry =>
        /\ caller'[t].err = <<>>
        /\ caller'[t].runner # 0
        /\ caller'[t].runner \notin DOMAIN instances
        /\ caller'[t].runner \in DOMAIN instances'
        /\ instances'[caller'[t].runner].name = caller[t].name
        /\ \A a \in DOMAIN instances : instances'[a] = instances[a]

\* An unregistered name, as stated: no instance, and a "not found" error
\* that lists every registered name.
NotFoundListsNames(t) ==
    caller[t].name \notin DOMAIN registry =>
        /\ caller'[t].runner = 0
        /\ "not found" \in Pieces(caller'[t].err)
        /\ DOMAIN registry \subseteq Pieces(caller'[t].err)

\* An unregistered name, in the code: no instance, and the error
\* "runner <name> not found", which names no registered runner.
NotFoundNamesRequest(t) ==
    caller[t].name \notin DOMAIN registry =>
        /\ caller'[t].runner = 0
        /\ caller'[t].err = <<"runner", caller[t].name, "not found">>
        /\ DOMAIN registry \cap Pieces(caller'[t].err) = {}
        /\ instances' = instances

\* Setting the path of one task's instance leaves the command head of every
\* other task's instance as it was.
PathIsPerInstance ==
    \A t, u \in Callers :
        /\ t # u
        /\ caller[t].pc = "idle" /\ caller[t].runner # 0
        /\ caller[u].runner # 0 /\ caller[u].runner \in DOMAIN instances
        /\ caller' = caller
        /\ CommandHead(instances', caller[t].runner)
               # CommandHead(instances, caller[t].runner)
        => CommandHead(instances', caller[u].runner)
               = CommandHead(instances, caller[u].runner)

\* The registry is whole: the writer holds the lock alone, the holders are
\* the tasks inside a body, every factory makes the runner it is registered
\* under, what init registered stays, and no two calls got one instance.
RegistryWhole ==
    /\ mu.writer # "" => mu.readers = {}
    /\ \A t \in Callers :
           caller[t].pc \in {"body", "unlock"} <=>
               IF caller[t].op = "Register" THEN mu.writer = t
               ELSE t \in mu.readers
    /\ RegisteredRunners \subseteq DOMAIN registry
    /\ DOMAIN registry \subseteq RegisteredRunners \cup RegisterNames
    /\ \A n \in DOMAIN registry : registry[n] = n
    /\ \A t, u \in Callers :
           t # u /\ caller[t].runner # 0 => caller[t].runner # caller[u].runner

\* C29 as stated: Create gives a fresh instance of the name asked for, one
\* per call, whose path is its own; for an unregistered name no instance
\* and a "not found" error listing all registered names; concurrent calls
\* leave the registry whole.
C29_NotFoundListsRegistered ==
    /\ []RegistryWhole
    /\ [][/\ \A t \in Callers :
                 CreateStep(t) => CreatesFresh(t) /\ NotFoundListsNames(t)
           /\ PathIsPerInstance]_vars

\* C29, amended: the same, the error for an unregistered name being
\* "runner <name> not found" with no list of registered names.
C29_CreateFreshOrNotFound ==
    /\ []RegistryWhole
    /\ [][/\ \A t \in Callers :
                 CreateStep(t) => CreatesFresh(t) /\ NotFoundNamesRequest(t)
           /\ PathIsPerInstance]_vars

\* One task holds an ib_send_bw instance with a path of its own, another
\* an instance with the default path, both from Create("ib_send_bw").
C29_Witness ==
    \E t, u \in Callers :
        /\ caller[t].pc = "idle" /\ caller[t].op = "CreateWithPath"
        /\ caller[u].pc = "idle" /\ caller[u].op = "CreateWithPath"
        /\ caller[t].name = "ib_send_bw" /\ caller[t].path = ""
        /\ caller[u].name = "ib_send_bw" /\ caller[u].path = ""
        /\ caller[t].runner # 0 /\ caller[u].runner # 0
        /\ CommandHead(instances, caller[t].runner) = "/opt/perftest/ib_send_bw"
        /\ CommandHead(instances, caller[u].runner) = "ib_send_bw"


\* ------------------------------------------------------------------- C30
BuildReturned == call.fn = "BuildCommand" /\ ret # <<>>

\* The flag of each parameter the checked configurations give ib_send_bw.
FlagOf ==
    [size |-> " -s ", iterations |-> " -n ", connection |-> " -c ",
     cpu_freq |-> " -F ", use_event |-> " -e"]

\* The two floats of the checked configurations, written with two decimals.
TwoDecimals(x) ==
    IF x = [m |-> 24, e |-> -1] THEN <<"2", ".", "4", "0">>
    ELSE <<"2", ".", "4", "6">>

\* What a parameter is to emit by the type rule.
Emits(key, value) ==
    CASE key \in {"size", "iterations"} -> <<FlagOf[key], ToString(value)>>
      [] key = "connection" -> <<FlagOf[key], value>>
      [] key = "cpu_freq" -> <<FlagOf[key]>> \o TwoDecimals(value)
      [] key = "use_event" -> IF value THEN <<FlagOf[key]>> ELSE <<>>
      [] OTHER -> <<>>

\* How often the pieces q stand together in the command.
Occurrences(cmd, q) ==
    Cardinality({k \in 1..(Len(cmd) - Len(q) + 1) :
                    SubSeq(cmd, k, k + Len(q) - 1) = q})

RECURSIVE EmittedLen(_, _)
EmittedLen(args, keys) ==
    IF keys = {} THEN 0
    ELSE LET k == CHOOSE x \in keys : TRUE
         IN  Len(Emits(k, args[k])) + EmittedLen(args, keys \ {k})

ResolvedTarget(c) == IF c.TargetHost # "" THEN c.TargetHost ELSE c.Host

\* The pieces of an ib_send_bw command that no parameter accounts for: the
\* environment prefix, the executable, the destination, port and duration.
FixedLen(h, a) ==
    LET c == h.cfgs[a]
    IN  Len(buildEnvPrefix(h, a)) + 1
        + (CASE c.Role = "client" /\ ResolvedTarget(c) # "" -> 2
             [] c.Role = "intermediate" /\ ResolvedTarget(c) # "" -> 3
             [] c.Role = "intermediate" -> 1
             [] OTHER -> 0)
        + (IF c.Port > 0 THEN 2 ELSE 0)
        + (IF c.Duration > 0 THEN 2 ELSE 0)

HostsTakingPart(t) ==
    {t.Client, t.Server} \cup
    (IF HasFourNodeTopology(t) THEN {t.Intermediate1, t.Intermediate2}
     ELSE IF HasIntermediateNode(t) THEN {t.Intermediate}
     ELSE {})

\* The roles whose runners a scenario needs registered; both intermediates
\* of a four-node scenario run the runner of the intermediate role.
RolesOf(t) ==
    {"client", "server"} \cup
    (IF HasFourNodeTopology(t) \/ HasIntermediateNode(t) THEN {"intermediate"}
     ELSE {})

\* A runner of the scenario is not registered, or a participating host is
\* not configured or has no open connection.
CannotCarryOut(t) ==
    \/ \E r \in RolesOf(t) : GetRunnerForRole(runnerConf, r) \notin coordRunners
    \/ \E h \in HostsTakingPart(t) : h \notin Hosts \/ h \notin held

\* The TestResult RunAllTests makes of an error: no success, an error text
\* and no Result of any role.
IsErrorResult(r) ==
    /\ r.Success = FALSE
    /\ r.Error # <<>>
    /\ r.ClientResult = <<>> /\ r.ServerResult = <<>>
    /\ r.IntermediateResult = <<>>
    /\ r.Intermediate1Result = <<>> /\ r.Intermediate2Result = <<>>

NothingIssued ==
    /\ checked = {}
    /\ issued = {}
    /\ launched = <<>>
    /\ \A r \in Roles : task[r] = NoTask

\* C31, ExecuteTest: a run of a scenario that cannot be carried out has
\* returned an error, with no executable check made, no command issued and
\* no role task started on any host; a run that can be carried out gets
\* past these checks.
C31_FailsBeforeAnyCommand ==
    /\ (pc = "returned" /\ CannotCarryOut(test)) =>
           retErr # <<>> /\ NothingIssued
    /\ (pc = "returned" /\ ~CannotCarryOut(test)) =>
           checked # {}

\* C31, RunAllTests: the repeat of such a scenario is recorded as a
\* TestResult with Success = false, an error and no role Result, and the
\* loop goes on to the next repeat or scenario.
C31_RecordedAsFailure ==
    (pc = "returned" /\ CannotCarryOut(test)) =>
        /\ results' = Append(results, results'[Len(results) + 1])
        /\ IsErrorResult(results'[Len(results) + 1])
        /\ results'[Len(results) + 1].ScenarioName = i
        /\ pc' = "loop"

\* C31, the scenarios after it: when RunAllTests has returned, every
\* scenario has its TestResult, and a scenario that could be carried out
\* had its executable checks made.
C31_OthersStillRun ==
    pc = "finished" =>
        /\ Len(results) = Len(tests)
        /\ \A k \in 1..Len(tests) :
               /\ results[k].ScenarioName = k
               /\ CannotCarryOut(tests[k]) => IsErrorResult(results[k])
        /\ ~CannotCarryOut(tests[Len(tests)]) => checked # {}

\* C31: if a role's runner is not registered, or a participating host is
\* missing from the configuration or has no open connection, ExecuteTest
\* fails before issuing any remote command on any host; RunAllTests records
\* a TestResult with Success = false, a non-empty Error and no role Results
\* for that repeat, and scenarios that use only connected hosts still run.
C31_PreflightFailure ==
    /\ []C31_FailsBeforeAnyCommand
    /\ [][C31_RecordedAsFailure]_vars
    /\ []C31_OthersStillRun

\* C31 witness: the first scenario, a three-node one whose intermediate
\* host has no open connection, was recorded as a failure, and the second
\* scenario then ran to success.
C31_Witness ==
    /\ pc = "finished"
    /\ "h3" \notin held
    /\ tests[1].Intermediate = "h3" /\ ~HasFourNodeTopology(tests[1])
    /\ Len(results) = 2
    /\ IsErrorResult(results[1])
    /\ results[1].Error = <<"SSH client for intermediate host not connected">>
    /\ results[2].Success
    /\ results[2].ClientResult # <<>>


\* ---------------------------------------------------------------------- C32
\* C32 (as stated): during ConnectHosts no two per-host tasks are writing
\* the connection map at the same time and the process is not stopped for
\* it; once ConnectHosts has returned nil the map holds an open connection
\* for every configured host, until Cleanup.
C32_ExclusiveMapWrites ==
    /\ Cardinality(writing) <= 1
    /\ app # "crashed"
    /\ app = "connected" =>
           /\ held = Hosts
           /\ \A h \in Hosts : conn[h] = "open"


\* ---------------------------------------------------------------------- C33
\* The client failed and ExecuteTest returned its error without collecting
\* the other roles.
ClientFailedEarly ==
    /\ pc \in {"returned", "loop", "finished"}
    /\ retErr # <<>>
    /\ retErr[1] = "client execution failed"

\* The role tasks the executor started before the client.
StartedBeforeClient == RolesOfTopology(executedTopology(test)) \ {"client"}

\* What runRemoteCommand returns when the context of its command is done.
Cancelled == runRemoteCommand(<<>>, ExecuteCommand("timeout"), <<>>)

\* Every such task has sent its single outcome and ended.
AllDelivered == \A r \in StartedBeforeClient : task[r].st = "done"

ServerResultDelivered ==
    /\ pc = "collect_server"
    /\ task["server"].st = "done"
    /\ task["server"].out.err = <<>>

\* C34 (as stated): when the server task has delivered its Result by the
\* time the executor collects, the select stores that Result in the
\* TestResult and sets no timeout error, whether or not the scenario
\* deadline has expired as well.
C34_DeliveredServerResultKept ==
    [][(ServerResultDelivered /\ pc' # pc) =>
           /\ result'.ServerResult = task["server"].out.result
           /\ result'.Error # <<"test timed out">>]_vars


\* ---------------------------------------------------------------------- C35
\* The executor leaves the select that collects intermediate r.
LeavesCollect(r) == pc = collectPc(r) /\ pc' # pc

\* The select found the error of r's task in its channel.
FailureObserved(r) == task[r].st = "done" /\ task[r].out.err # <<>>

\* The text the executor makes of the error of intermediate r.
FailureText(r) ==
    <<CASE r = "intermediate" -> "intermediate execution failed"
        [] r = "intermediate1" -> "intermediate1 execution failed"
        [] r = "intermediate2" -> "intermediate2 execution failed">>
    \o task[r].out.err

\* The selects follow one another: server, then intermediate1 (or
\* intermediate), then intermediate2.
CollectionOrder ==
    /\ (pc = "collect_server" /\ pc' # pc) =>
           pc' = CASE executedTopology(test) = "4-node" -> "collect_intermediate1"
                   [] executedTopology(test) = "3-node" -> "collect_intermediate"
                   [] OTHER -> "aggregate"
    /\ LeavesCollect("intermediate1") => pc' = "collect_intermediate2"
    /\ LeavesCollect("intermediate") => pc' = "aggregate"
    /\ LeavesCollect("intermediate2") => pc' = "aggregate"
    /\ (pc = "client_wait" /\ pc' = "collect_server") => result'.Error = <<>>

\* C35: result.Error keeps the first error observed in collection order: a
\* select for an intermediate leaves an error that is already recorded (a
\* server failure or the timeout) as it is, records the intermediate's
\* failure when there is none, and otherwise records nothing.
C35_FirstErrorKept ==
    [][/\ CollectionOrder
       /\ \A r \in IntermediateRoles :
            LeavesCollect(r) =>
                /\ result.Error # <<>> => result'.Error = result.Error
                /\ (result.Error = <<>> /\ FailureObserved(r)) =>
                       result'.Error = FailureText(r)
                /\ (result.Error = <<>> /\ ~FailureObserved(r)) =>
                       result'.Error = <<>>]_vars

\* C35 witness: a four-node run in which the server and intermediate1
\* delivered Results and the failure of intermediate2, the first error of
\* the collection, was recorded.
C35_Witness ==
    /\ pc = "aggregate"
    /\ executedTopology(test) = "4-node"
    /\ result.ServerResult # <<>>
    /\ result.Intermediate1Result # <<>>
    /\ FailureObserved("intermediate2")
    /\ result.Error = FailureText("intermediate2")


\* ---------------------------------------------------------------------- C36
\* The intermediate the client connects to.
NextToClient(t) ==
    IF HasFourNodeTopology(t) THEN "intermediate1" ELSE "intermediate"

\* C36 (as stated): in a three- or four-node scenario, whatever target
\* addresses the hosts and the scenario configure, the destination of the
\* client's command differs from the destination the intermediate next to
\* it forwards to.
C36_ChainNotShortCircuited ==
    (/\ executedTopology(test) \in {"3-node", "4-node"}
     /\ sent["client"] # <<>>
     /\ sent[NextToClient(test)] # <<>>) =>
        DestinationOf(sent["client"][1]) # DestinationOf(sent[NextToClient(test)][1])


\* ---------------------------------------------------------------------- C37
\* The errors of ExecuteTest's lookups in Coordinator.runners.
RunnerNotFound ==
    {"client runner not found", "server runner not found",
     "intermediate runner not found", "intermediate1 runner not found",
     "intermediate2 runner not found"}

\* C37 (as stated): for a configuration that passed validation and whose
\* runners were registered, no run of ExecuteTest returns a "runner not
\* found" error.
C37_NoRunnerNotFound ==
    ~(/\ pc = "returned"
      /\ retErr # <<>>
      /\ retErr[1] \in RunnerNotFound)

==============================================================================
